---- MODULE Spec2Model ----
(***************************************************************************)
(* Model of the RESTful API MCP server: the tool handlers (src/tools), the *)
(* ApiClient wrapper around axios (src/client) and the authentication      *)
(* strategies (src/auth).                                                   *)
(*                                                                         *)
(* JavaScript values are tagged records: [t |-> typeof-like tag, v |-> ..].*)
(* Objects are functions from their own keys to values, so "key in obj" is *)
(* k \in DOMAIN obj.v and a missing key reads as Undefined.                *)
(***************************************************************************)
EXTENDS Integers, Sequences, FiniteSets, TLC

(* ------------------------------ bounds --------------------------------- *)
\* number of calls (tool calls and direct client calls) one behaviour makes
MaxCalls == 2
\* number of ApiClient calls that can be in flight at the same time
MaxParallel == 2

(* --------------------------- JavaScript values ------------------------- *)
Undefined == [t |-> "undefined"]
Null == [t |-> "null"]
Str(s) == [t |-> "string", v |-> s]
Num(n) == [t |-> "number", v |-> n]
Bool(b) == [t |-> "boolean", v |-> b]
Obj(f) == [t |-> "object", v |-> f]
EmptyMap == [k \in {} |-> Undefined]

\* obj[key] of JavaScript: Undefined for a missing key
Get(obj, k) == IF k \in DOMAIN obj.v THEN obj.v[k] ELSE Undefined

\* JavaScript truthiness, as used by `if (x)` and `x || y`
Truthy(x) ==
  CASE x.t = "undefined" -> FALSE
    [] x.t = "null" -> FALSE
    [] x.t = "string" -> Len(x.v) > 0
    [] x.t = "number" -> x.v # 0
    [] x.t = "boolean" -> x.v
    [] OTHER -> TRUE

\* { ...a, ...b } on plain maps
Spread(a, b) == [k \in DOMAIN a \cup DOMAIN b |-> IF k \in DOMAIN b THEN b[k] ELSE a[k]]

\* iteration order of the object keys the model uses (insertion order of the
\* inputs the model builds)
KeyOrder == <<"path", "headers", "queryParams", "body", "foo", "X-Id", "q", "r", "category",
              "Authorization">>

\* the keys of KeyOrder that are in S, in order
RECURSIVE OrderedFrom(_, _)
OrderedFrom(i, S) ==
  IF i > Len(KeyOrder) THEN <<>>
  ELSE (IF KeyOrder[i] \in S THEN <<KeyOrder[i]>> ELSE <<>>) \o OrderedFrom(i + 1, S)
Ordered(S) == OrderedFrom(1, S)

\* Array.prototype.join
RECURSIVE Join(_, _)
Join(strs, sep) ==
  IF Len(strs) = 0 THEN ""
  ELSE IF Len(strs) = 1 THEN strs[1]
  ELSE strs[1] \o sep \o Join(Tail(strs), sep)

\* String.prototype.includes
Contains(s, sub) ==
  \E i \in 1..(Len(s) - Len(sub) + 1) : SubSeq(s, i, i + Len(sub) - 1) = sub
StartsWith(s, pre) == Len(s) >= Len(pre) /\ SubSeq(s, 1, Len(pre)) = pre

(* ------------------------ completions and errors ----------------------- *)
Return(v) == [kind |-> "return", value |-> v]
Throw(e) == [kind |-> "throw", error |-> e]
None == [kind |-> "none"]

NoResponse == [status |-> 0, statusText |-> "", data |-> Undefined, headers |-> EmptyMap]

\* a thrown value; class "NonError" is a thrown value that is no Error
Thrown(class, message) ==
  [class |-> class, message |-> message, status |-> Undefined, code |-> "",
   response |-> NoResponse, hasResponse |-> FALSE, hasRequest |-> FALSE]
InstanceOfError(e) == e.class # "NonError"
\* error.stack: "<name>: <message>" followed by the frames
StackOf(e) == e.class \o ": " \o e.message \o "\n    at <frames>"

(* ------------------- argument schemas (zod, src/tools) ----------------- *)
\* a zod issue: the path of the offending value and the message
Issue(path, message) == [path |-> path, message |-> message]

\* zod's invalid_type message: "Required" for a missing value
InvalidType(expected, x) ==
  IF x.t = "undefined" THEN "Required"
  ELSE "Expected " \o expected \o ", received " \o x.t

\* z.string()
ZString(x, path) ==
  IF x.t # "string" THEN <<Issue(path, InvalidType("string", x))>> ELSE <<>>

\* path: z.string() without the min(1) refinement
ZPathNoMin(x, path) ==
  IF x.t # "string" THEN <<Issue(path, InvalidType("string", x))>> ELSE <<>>
\* path: z.string().min(1, "Path is required and cannot be empty")
ZPath(x, path) ==
  IF x.t # "string" THEN <<Issue(path, InvalidType("string", x))>>
  ELSE IF Len(x.v) < 1 THEN <<Issue(path, "Path is required and cannot be empty")>>
  ELSE <<>>

\* z.record(z.string()): every value of the object must be a string
RECURSIVE ZRecordKeys(_, _, _)
ZRecordKeys(keys, x, path) ==
  IF Len(keys) = 0 THEN <<>>
  ELSE ZString(x.v[keys[1]], path \o <<keys[1]>>) \o ZRecordKeys(Tail(keys), x, path)
ZRecord(x, path) ==
  IF x.t # "object" THEN <<Issue(path, InvalidType("object", x))>>
  ELSE ZRecordKeys(Ordered(DOMAIN x.v), x, path)

\* schema.optional(): undefined is accepted, anything else goes to the schema
ZOptionalRecord(x, path) == IF x.t = "undefined" THEN <<>> ELSE ZRecord(x, path)
\* z.any().optional()
ZOptionalAny(x, path) == <<>>

\* the three schemas, named by the keys of their shape in declaration order
BaseRequestSchema == <<"path", "headers">>
QueryRequestSchema == <<"path", "headers", "queryParams">>
BodyRequestSchema == <<"path", "headers", "body">>

ShapeKeys(schema) == {schema[i] : i \in 1..Len(schema)}

\* the validator of one key of the shape
ZField(key, x, path) ==
  CASE key = "path" -> ZPath(x, path)
    [] key = "headers" -> ZOptionalRecord(x, path)
    [] key = "queryParams" -> ZOptionalRecord(x, path)
    [] OTHER -> ZOptionalAny(x, path)

RECURSIVE ZShape(_, _)
ZShape(keys, args) ==
  IF Len(keys) = 0 THEN <<>>
  ELSE ZField(keys[1], Get(args, keys[1]), <<keys[1]>>) \o ZShape(Tail(keys), args)

\* zod's unrecognized_keys message
Quoted(keys) == [i \in 1..Len(keys) |-> "'" \o keys[i] \o "'"]
UnrecognizedKeys(keys) == "Unrecognized key(s) in object: " \o Join(Quoted(keys), ", ")

\* the object schema without .strict(): unknown keys are stripped
ZStripObject(schema, args) ==
  IF args.t # "object" THEN <<Issue(<<>>, InvalidType("object", args))>>
  ELSE ZShape(schema, args)
\* .strict(): the issues of the shape's keys, then one issue for unknown keys
ZStrictObject(schema, args) ==
  IF args.t # "object" THEN <<Issue(<<>>, InvalidType("object", args))>>
  ELSE LET extraKeys == Ordered(DOMAIN args.v \ ShapeKeys(schema))
       IN ZShape(schema, args) \o
          (IF Len(extraKeys) > 0 THEN <<Issue(<<>>, UnrecognizedKeys(extraKeys))>> ELSE <<>>)

\* the value schema.parse returns: the keys of the shape present in the input
ZOutput(schema, args) ==
  Obj([k \in DOMAIN args.v \cap ShapeKeys(schema) |-> args.v[k]])

\* BaseToolHandler.validateArguments
IssueText(err) ==
  (IF Len(err.path) > 0 THEN Join(err.path, ".") ELSE "root") \o ": " \o err.message
\* validateArguments reporting a missing required value in zod's bare wording
validateArgumentsBareRequired(schema, args) ==
  LET errors == ZStrictObject(schema, args)
  IN IF Len(errors) = 0 THEN Return(ZOutput(schema, args))
     ELSE IF \E i \in 1..Len(errors) : errors[i].message = "Required"
     THEN Throw(Thrown("Error", "Required"))
     ELSE Throw(Thrown("Error",
            "Invalid arguments: " \o Join([i \in 1..Len(errors) |-> IssueText(errors[i])], ", ")))
validateArguments(schema, args) ==
  LET errors == ZStrictObject(schema, args)
  IN IF Len(errors) = 0 THEN Return(ZOutput(schema, args))
     ELSE Throw(Thrown("Error",
            "Invalid arguments: " \o Join([i \in 1..Len(errors) |-> IssueText(errors[i])], ", ")))

(* ----------------------- result formatting (src/tools) ----------------- *)
\* what JSON.stringify keeps of a value: members whose value is undefined
\* are not serialised
RECURSIVE JsonValue(_)
JsonValue(x) ==
  IF x.t = "object"
  THEN Obj([k \in {j \in DOMAIN x.v : x.v[j].t # "undefined"} |-> JsonValue(x.v[k])])
  ELSE x
\* JSON.stringify(x, null, 2): the text, represented by the document it denotes
JSONstringify(x) == [t |-> "text", v |-> JsonValue(x)]
\* JSON.parse(text)
JSONparse(text) == text.v

\* response.<key> of an ApiResponse
Field(r, k) == IF k \in DOMAIN r THEN r[k] ELSE Undefined

\* formatSuccessResponse leaving the data out of the document
formatSuccessResponseNoData(response) ==
  [content |-> <<[type |-> "text",
                  text |-> JSONstringify(Obj([success |-> Field(response, "success"),
                                              status |-> Field(response, "status"),
                                              headers |-> Field(response, "headers")]))]>>]
\* BaseToolHandler.formatSuccessResponse
formatSuccessResponse(response) ==
  [content |-> <<[type |-> "text",
                  text |-> JSONstringify(Obj([success |-> Field(response, "success"),
                                              status |-> Field(response, "status"),
                                              data |-> Field(response, "data"),
                                              headers |-> Field(response, "headers")]))]>>]

\* BaseToolHandler.formatErrorResponse
formatErrorResponse(error, details) ==
  [content |-> <<[type |-> "text",
                  text |-> JSONstringify(Obj([success |-> Bool(FALSE),
                                              error |-> error,
                                              details |-> details]))]>>,
   isError |-> TRUE]

\* handleApiResponse formatting every ApiResponse as a success
handleApiResponseNoBranch(response) == formatSuccessResponse(response)
\* handleApiResponse without the fallback text for a missing error
handleApiResponseNoFallback(response) ==
  IF Truthy(Field(response, "success")) THEN formatSuccessResponse(response)
  ELSE formatErrorResponse(Field(response, "error"), Obj([status |-> Field(response, "status")]))
\* BaseToolHandler.handleApiResponse
handleApiResponse(response) ==
  IF Truthy(Field(response, "success")) THEN formatSuccessResponse(response)
  ELSE formatErrorResponse(
         IF Truthy(Field(response, "error")) THEN Field(response, "error")
         ELSE Str("Unknown API error"),
         Obj([status |-> Field(response, "status")]))

\* handleError reporting the message only
handleErrorNoDetails(error) ==
  formatErrorResponse(
    Str(IF InstanceOfError(error) THEN error.message ELSE "Unknown error occurred"),
    Undefined)
\* BaseToolHandler.handleError
handleError(error) ==
  LET errorMessage == IF InstanceOfError(error) THEN error.message ELSE "Unknown error occurred"
      errorDetails == IF InstanceOfError(error)
                      THEN Obj([name |-> Str(error.class), stack |-> Str(StackOf(error))])
                      ELSE Undefined
  IN formatErrorResponse(Str(errorMessage), errorDetails)

(* --------------------------- the five tools ----------------------------- *)
Tools == {"api_get", "api_post", "api_put", "api_patch", "api_delete"}
Verbs == {"GET", "POST", "PUT", "PATCH", "DELETE"}

\* the ApiClient method each handler calls
VerbOf(tool) ==
  CASE tool = "api_get" -> "GET"
    [] tool = "api_post" -> "POST"
    [] tool = "api_put" -> "PUT"
    [] tool = "api_patch" -> "PATCH"
    [] OTHER -> "DELETE"

\* the DELETE handler validating against the schema of the body verbs
SchemaOfDeleteWithBody(tool) ==
  CASE tool = "api_get" -> QueryRequestSchema
    [] OTHER -> BodyRequestSchema
\* the schema each handleCall validates against
SchemaOf(tool) ==
  CASE tool = "api_get" -> QueryRequestSchema
    [] tool = "api_delete" -> BaseRequestSchema
    [] OTHER -> BodyRequestSchema

\* requestOptions with the body forwarded only when it is truthy
RequestOptionsTruthyBody(tool, validatedArgs) ==
  LET a == validatedArgs.v
      path == [k \in {"path"} |-> a["path"]]
      headers == IF Truthy(Get(validatedArgs, "headers"))
                 THEN [k \in {"headers"} |-> a["headers"]] ELSE EmptyMap
      queryParams == IF tool = "api_get" /\ Truthy(Get(validatedArgs, "queryParams"))
                     THEN [k \in {"queryParams"} |-> a["queryParams"]] ELSE EmptyMap
      body == IF tool \in {"api_post", "api_put", "api_patch"}
                   /\ Truthy(Get(validatedArgs, "body"))
              THEN [k \in {"body"} |-> a["body"]] ELSE EmptyMap
  IN Obj(Spread(Spread(Spread(path, queryParams), body), headers))
\* the requestOptions each handleCall assembles from the validated arguments
RequestOptions(tool, validatedArgs) ==
  LET a == validatedArgs.v
      path == [k \in {"path"} |-> a["path"]]
      headers == IF Truthy(Get(validatedArgs, "headers"))
                 THEN [k \in {"headers"} |-> a["headers"]] ELSE EmptyMap
      queryParams == IF tool = "api_get" /\ Truthy(Get(validatedArgs, "queryParams"))
                     THEN [k \in {"queryParams"} |-> a["queryParams"]] ELSE EmptyMap
      body == IF tool \in {"api_post", "api_put", "api_patch"} /\ "body" \in DOMAIN a
              THEN [k \in {"body"} |-> a["body"]] ELSE EmptyMap
  IN Obj(Spread(Spread(Spread(path, queryParams), body), headers))

(* ------------------- authentication strategies (src/auth) -------------- *)
\* the printable ASCII characters in code order: 32..95 and 97..126
PrintableLow == " !\"#$%&'()*+,-./0123456789:;<=>?@ABCDEFGHIJKLMNOPQRSTUVWXYZ[\\]^_"
PrintableHigh == "abcdefghijklmnopqrstuvwxyz{|}~"
CharAt(s, i) == SubSeq(s, i, i)
IndexIn(s, c) == CHOOSE i \in 1..Len(s) : CharAt(s, i) = c
CharCode(c) ==
  IF \E i \in 1..Len(PrintableLow) : CharAt(PrintableLow, i) = c
  THEN 31 + IndexIn(PrintableLow, c)
  ELSE 96 + IndexIn(PrintableHigh, c)

Base64Alphabet == "ABCDEFGHIJKLMNOPQRSTUVWXYZabcdefghijklmnopqrstuvwxyz0123456789+/"
B64(n) == CharAt(Base64Alphabet, n + 1)

\* Buffer.from(s).toString("base64")
RECURSIVE Base64From(_, _)
Base64From(s, i) ==
  LET left == Len(s) - i + 1
      b1 == CharCode(CharAt(s, i))
      b2 == CharCode(CharAt(s, i + 1))
      b3 == CharCode(CharAt(s, i + 2))
  IN IF left <= 0 THEN ""
     ELSE IF left = 1 THEN B64(b1 \div 4) \o B64((b1 % 4) * 16) \o "=="
     ELSE IF left = 2
       THEN B64(b1 \div 4) \o B64((b1 % 4) * 16 + b2 \div 16) \o B64((b2 % 16) * 4) \o "="
     ELSE B64(b1 \div 4) \o B64((b1 % 4) * 16 + b2 \div 16)
          \o B64((b2 % 16) * 4 + b3 \div 64) \o B64(b3 % 64) \o Base64From(s, i + 3)
Base64(s) == Base64From(s, 1)

\* an axios request configuration: a map with an optional "headers" map
ConfigHeaders(config) == IF "headers" \in DOMAIN config THEN config["headers"] ELSE EmptyMap

\* BaseAuthenticationHandler.cloneConfig
cloneConfig(config) == Spread(config, [k \in {"headers"} |-> ConfigHeaders(config)])

\* applyAuth of the configured strategy; a strategy of type "custom" stands
\* for an AuthenticationStrategy implementation whose applyAuth throws
WithAuthorization(config, value) ==
  Spread(cloneConfig(config),
         [k \in {"headers"} |->
            Spread(ConfigHeaders(cloneConfig(config)), [h \in {"Authorization"} |-> Str(value)])])
\* applyAuth leaving an Authorization header of the request in place
applyAuthKeepCaller(strategy, config) ==
  IF "Authorization" \in DOMAIN ConfigHeaders(config) \/ strategy.type = "none"
  THEN Return(cloneConfig(config))
  ELSE IF strategy.type = "basic"
  THEN Return(WithAuthorization(config,
                "Basic " \o Base64(strategy.username \o ":" \o strategy.password)))
  ELSE IF strategy.type = "token"
  THEN Return(WithAuthorization(config, "Bearer " \o strategy.token))
  ELSE Throw(Thrown("Error", "applyAuth failed"))
applyAuth(strategy, config) ==
  CASE strategy.type = "basic" ->
         Return(WithAuthorization(config,
                  "Basic " \o Base64(strategy.username \o ":" \o strategy.password)))
    [] strategy.type = "token" ->
         Return(WithAuthorization(config, "Bearer " \o strategy.token))
    [] strategy.type = "none" -> Return(cloneConfig(config))
    [] OTHER -> Throw(Thrown("Error", "applyAuth failed"))

(* ------------- applyAuth on objects with identity (src/auth) ----------- *)
\* Objects live in a heap, a sequence indexed by address; a member that holds
\* an object holds a reference to its address.  A request configuration is an
\* object whose optional member "headers" refers to the headers object.
Ref(a) == [t |-> "ref", a |-> a]

\* the heap holding one configuration, its headers object first
HeapOf(config) ==
  IF "headers" \in DOMAIN config
  THEN <<config["headers"], Spread(config, [k \in {"headers"} |-> Ref(1)])>>
  ELSE <<config>>
\* the configuration an address holds, with its headers read through
Deref(hp, c) ==
  IF "headers" \in DOMAIN hp[c]
  THEN Spread(hp[c], [k \in {"headers"} |-> hp[hp[c]["headers"].a]])
  ELSE hp[c]

\* cloneConfig: { ...config, headers: { ...config.headers } } allocates a new
\* headers object and a new configuration object
cloneConfigOnHeap(hp, c) ==
  LET headers == IF "headers" \in DOMAIN hp[c] THEN hp[hp[c]["headers"].a] ELSE EmptyMap
      h == Len(hp) + 1
  IN [heap |-> hp \o <<headers, Spread(hp[c], [k \in {"headers"} |-> Ref(h)])>>,
      ref |-> h + 1]

\* clonedConfig.headers = { ...clonedConfig.headers, Authorization: value }
SetAuthorizationOnHeap(hp, c, value) ==
  LET h == Len(hp) + 1
      headers == Spread(hp[hp[c]["headers"].a], [k \in {"Authorization"} |-> Str(value)])
  IN [heap |-> [Append(hp, headers) EXCEPT ![c] = Spread(hp[c], [k \in {"headers"} |-> Ref(h)])],
      ref |-> c]

\* the Authorization value of a strategy that signs requests
AuthorizationOf(strategy) ==
  IF strategy.type = "basic"
  THEN "Basic " \o Base64(strategy.username \o ":" \o strategy.password)
  ELSE "Bearer " \o strategy.token

\* applyAuth writing into the object it was given
applyAuthInPlace(strategy, hp, c) ==
  IF strategy.type = "none" THEN [heap |-> hp, ref |-> c]
  ELSE IF "headers" \in DOMAIN hp[c]
  THEN [heap |-> [hp EXCEPT ![hp[c]["headers"].a] =
                    Spread(@, [k \in {"Authorization"} |-> Str(AuthorizationOf(strategy))])],
        ref |-> c]
  ELSE [heap |-> [Append(hp, [k \in {"Authorization"} |-> Str(AuthorizationOf(strategy))])
                    EXCEPT ![c] = Spread(@, [k \in {"headers"} |-> Ref(Len(hp) + 1)])],
        ref |-> c]
\* applyAuth replacing the headers by the Authorization header alone
applyAuthDropHeaders(strategy, hp, c) ==
  LET cloned == cloneConfigOnHeap(hp, c)
      h == Len(cloned.heap) + 1
  IN IF strategy.type = "none" THEN cloned
     ELSE [heap |-> [Append(cloned.heap,
                            [k \in {"Authorization"} |-> Str(AuthorizationOf(strategy))])
                       EXCEPT ![cloned.ref] = Spread(@, [k \in {"headers"} |-> Ref(h)])],
           ref |-> cloned.ref]
\* BasicAuthHandler/TokenAuthHandler/NoAuthHandler.applyAuth: the heap after
\* the call and the address of the returned configuration
applyAuthOnHeap(strategy, hp, c) ==
  LET cloned == cloneConfigOnHeap(hp, c)
  IN IF strategy.type = "none" THEN cloned
     ELSE SetAuthorizationOnHeap(cloned.heap, cloned.ref, AuthorizationOf(strategy))

(* ----------------------------- ApiClient -------------------------------- *)
\* ApiClientError(message, status, code)
ApiClientError(message, status, code) ==
  [class |-> "ApiClientError", message |-> message, status |-> status, code |-> code,
   response |-> NoResponse, hasResponse |-> FALSE, hasRequest |-> FALSE]

\* the headers axios.create is given
DefaultHeaders == [k \in {"Content-Type", "Accept"} |-> Str("application/json")]

\* application/x-www-form-urlencoded serialisation of URLSearchParams, on
\* the characters the inputs of the model use: letters, digits, hyphen,
\* underscore, full stop and asterisk are kept
EncodeChar(c) ==
  CASE c = " " -> "+"
    [] c = "&" -> "%26"
    [] c = "=" -> "%3D"
    [] c = "?" -> "%3F"
    [] c = "/" -> "%2F"
    [] c = "+" -> "%2B"
    [] c = "%" -> "%25"
    [] c = ":" -> "%3A"
    [] OTHER -> c
RECURSIVE FormEncodeFrom(_, _)
FormEncodeFrom(s, i) ==
  IF i > Len(s) THEN "" ELSE EncodeChar(CharAt(s, i)) \o FormEncodeFrom(s, i + 1)
FormEncode(s) == FormEncodeFrom(s, 1)

\* String(value)
ToStr(x) ==
  CASE x.t = "string" -> x.v
    [] x.t = "number" -> ToString(x.v)
    [] OTHER -> x.t

\* ApiClient.buildQueryString
RECURSIVE QueryPairs(_, _)
QueryPairs(keys, params) ==
  IF Len(keys) = 0 THEN <<>>
  ELSE (IF params[keys[1]].t \notin {"undefined", "null"}
        THEN <<FormEncode(keys[1]) \o "=" \o FormEncode(ToStr(params[keys[1]]))>>
        ELSE <<>>) \o QueryPairs(Tail(keys), params)
\* buildQueryString appending every parameter, null and undefined included
buildQueryStringNoFilter(params) ==
  Join([i \in 1..Len(Ordered(DOMAIN params)) |->
          FormEncode(Ordered(DOMAIN params)[i]) \o "="
            \o FormEncode(ToStr(params[Ordered(DOMAIN params)[i]]))], "&")
buildQueryString(params) == Join(QueryPairs(Ordered(DOMAIN params), params), "&")

\* ApiClient.transformResponse
transformResponse(response) ==
  [success |-> Bool(TRUE), status |-> Num(response.status),
   data |-> response.data, headers |-> Obj(response.headers)]

\* transformError reporting the message as data instead of error
transformErrorAsData(error) ==
  [success |-> Bool(FALSE),
   status |-> IF Truthy(error.status) THEN error.status ELSE Num(0),
   data |-> Str(error.message)]
\* transformError without the `|| 0` default
transformErrorNoDefault(error) ==
  [success |-> Bool(FALSE), status |-> error.status, error |-> Str(error.message)]
\* ApiClient.transformError
transformError(error) ==
  [success |-> Bool(FALSE),
   status |-> IF Truthy(error.status) THEN error.status ELSE Num(0),
   error |-> Str(error.message)]

\* the body of get/post/put/patch/delete up to the call of the axios
\* instance: the arguments of that call, or the exception the body throws
\* when options is not an object
VerbCall(verb, options) ==
  IF options.t # "object"
  THEN Throw(Thrown("TypeError", "Cannot read properties of " \o options.t
                     \o " (reading '" \o (IF verb = "GET" THEN "path" ELSE "headers") \o "')"))
  ELSE LET path == Get(options, "path").v
           queryParams == Get(options, "queryParams")
           url == IF verb = "GET" /\ Truthy(queryParams) /\ Cardinality(DOMAIN queryParams.v) > 0
                  THEN path \o (IF Contains(path, "?") THEN "&" ELSE "?")
                            \o buildQueryString(queryParams.v)
                  ELSE path
           config == IF Truthy(Get(options, "headers"))
                     THEN [k \in {"headers"} |-> Get(options, "headers").v] ELSE EmptyMap
           data == IF verb \in {"POST", "PUT", "PATCH"}
                   THEN [k \in {"data"} |-> Get(options, "body")] ELSE EmptyMap
       IN Return(Spread([method |-> verb, url |-> url, config |-> config], data))

\* the fulfilled handler of the request interceptor
requestInterceptor(strategy, config) ==
  LET authConfig == applyAuth(strategy, config)
  IN IF authConfig.kind = "throw"
     THEN Throw(ApiClientError("Authentication failed", Undefined, "AUTH_ERROR"))
     ELSE Return(Spread(config, authConfig.value))

\* the rejected handler of the response interceptor
responseInterceptor(error) ==
  IF error.hasResponse
  THEN ApiClientError("HTTP " \o ToString(error.response.status) \o ": "
                        \o error.response.statusText,
                      Num(error.response.status), "HTTP_ERROR")
  ELSE IF error.hasRequest
  THEN ApiClientError("Network error: No response received", Undefined, "NETWORK_ERROR")
  ELSE ApiClientError("Request failed: " \o error.message, Undefined, "REQUEST_ERROR")

\* a catch block that handles ApiClientError only and rethrows the rest
VerbCatchRethrow(verb, error) ==
  IF error.class = "ApiClientError" THEN Return(transformError(error)) ELSE Throw(error)
\* a catch block that prefixes every error, classified or not
VerbCatchPrefixAll(verb, error) ==
  Return(transformError(ApiClientError(
    verb \o " request failed: "
         \o (IF InstanceOfError(error) THEN error.message ELSE "Unknown error"),
    error.status, verb \o "_ERROR")))
\* the catch block of get/post/put/patch/delete
VerbCatch(verb, error) ==
  IF error.class = "ApiClientError" THEN Return(transformError(error))
  ELSE Return(transformError(ApiClientError(
         verb \o " request failed: "
              \o (IF InstanceOfError(error) THEN error.message ELSE "Unknown error"),
         Undefined, verb \o "_ERROR")))

(* ------------------------- the axios instance --------------------------- *)
\* the request configuration axios builds for instance.<verb>(url, data, config):
\* the per-call headers are merged over the instance's default headers
AxiosConfig(args) ==
  Spread([k \in DOMAIN args \ {"config"} |-> args[k]],
         [k \in {"headers"} |-> Spread(DefaultHeaders, ConfigHeaders(args.config))])

\* an error axios rejects with
AxiosError(message, response, hasResponse, hasRequest) ==
  [class |-> "AxiosError", message |-> message, status |-> Undefined, code |-> "",
   response |-> response, hasResponse |-> hasResponse, hasRequest |-> hasRequest]

\* how axios settles the promise of a dispatched request, given what the
\* transport did: validateStatus accepts 200..299
AxiosSettle(reply) ==
  CASE reply.kind = "response" ->
         IF reply.status >= 200 /\ reply.status < 300
         THEN Return([status |-> reply.status, statusText |-> reply.statusText,
                      data |-> reply.data, headers |-> reply.headers])
         ELSE Throw(AxiosError("Request failed with status code " \o ToString(reply.status),
                               [status |-> reply.status, statusText |-> reply.statusText,
                                data |-> reply.data, headers |-> reply.headers],
                               TRUE, TRUE))
    [] reply.kind = "noResponse" -> Throw(AxiosError(reply.message, NoResponse, FALSE, TRUE))
    [] OTHER -> Throw(AxiosError(reply.message, NoResponse, FALSE, FALSE))

\* what the transport can do with a dispatched request
ReplyHeaders == [k \in {"content-type"} |-> Str("application/json")]
Replies ==
  { [kind |-> "response", status |-> 200, statusText |-> "OK",
     data |-> Obj([k \in {"id"} |-> Num(1)]), headers |-> ReplyHeaders],
    [kind |-> "response", status |-> 204, statusText |-> "No Content",
     data |-> Str(""), headers |-> ReplyHeaders],
    [kind |-> "response", status |-> 404, statusText |-> "Not Found",
     data |-> Obj(EmptyMap), headers |-> ReplyHeaders],
    [kind |-> "response", status |-> 500, statusText |-> "Internal Server Error",
     data |-> Str("oops"), headers |-> ReplyHeaders],
    [kind |-> "noResponse", message |-> "timeout of 30000ms exceeded"],
    [kind |-> "notSent", message |-> "Invalid URL"] }

\* a client whose axios instance has no request interceptor installed
ClientStartNoInterceptor(strategy, verb, options) ==
  LET args == VerbCall(verb, options)
  IN IF args.kind = "throw"
     THEN [applied |-> <<>>, sent |-> <<>>, caught |-> args,
           outcome |-> VerbCatch(verb, args.error)]
     ELSE [applied |-> <<>>, sent |-> <<AxiosConfig(args.value)>>, caught |-> None,
           outcome |-> None]
\* get/post/put/patch/delete from the call to the point where the request is
\* handed to the transport or the method has its result: the configurations
\* applyAuth was called with, the requests sent, the exception the method
\* caught, and the method's completion (None while the request is in flight).
\* A rejection of the request interceptor skips the transport and reaches the
\* rejected handler of the response interceptor.
ClientStart(strategy, verb, options) ==
  LET args == VerbCall(verb, options)
      merged == AxiosConfig(args.value)
      config == requestInterceptor(strategy, merged)
      rejected == Throw(responseInterceptor(config.error))
  IN IF args.kind = "throw"
     THEN [applied |-> <<>>, sent |-> <<>>, caught |-> args,
           outcome |-> VerbCatch(verb, args.error)]
     ELSE IF config.kind = "throw"
     THEN [applied |-> <<merged>>, sent |-> <<>>, caught |-> rejected,
           outcome |-> VerbCatch(verb, rejected.error)]
     ELSE [applied |-> <<merged>>, sent |-> <<config.value>>, caught |-> None,
           outcome |-> None]

\* the rest of the method once the transport has acted on the request
ClientFinish(verb, reply) ==
  LET settled == AxiosSettle(reply)
      rejected == Throw(responseInterceptor(settled.error))
  IN IF settled.kind = "return"
     THEN [caught |-> None, outcome |-> Return(transformResponse(settled.value))]
     ELSE [caught |-> rejected, outcome |-> VerbCatch(verb, rejected.error)]

\* handleCall without its catch: an exception of the client propagates
HandlerFinishNoCatch(completion) ==
  IF completion.kind = "throw" THEN completion
  ELSE Return(handleApiResponse(completion.value))
\* the try/catch of handleCall around the ApiClient method's completion
HandlerFinish(completion) ==
  IF completion.kind = "throw" THEN Return(handleError(completion.error))
  ELSE Return(handleApiResponse(completion.value))

(* ------------------- the server's startup (src/index.ts) ---------------- *)
\* String.prototype.trim().length === 0 on the strings the model uses
IsBlank(s) == \A i \in 1..Len(s) : CharAt(s, i) = " "

\* the fields a handler holds, as the JavaScript values its constructor stored
HandlerFields(strategy) ==
  CASE strategy.type = "basic" ->
         [type |-> "basic", username |-> Str(strategy.username),
          password |-> Str(strategy.password)]
    [] strategy.type = "token" -> [type |-> "token", token |-> Str(strategy.token)]
    [] OTHER -> [type |-> strategy.type]

\* `!x || typeof x !== "string"`
NotAString(x) == ~Truthy(x) \/ x.t # "string"

\* validate() that only tests the credentials for being truthy
validateFieldsTruthyOnly(handler) ==
  CASE handler.type = "basic" ->
         IF ~Truthy(handler.username)
         THEN Throw(Thrown("Error", "Basic authentication requires a valid username"))
         ELSE IF ~Truthy(handler.password)
         THEN Throw(Thrown("Error", "Basic authentication requires a valid password"))
         ELSE Return(Undefined)
    [] handler.type = "token" ->
         IF ~Truthy(handler.token)
         THEN Throw(Thrown("Error", "Token authentication requires a valid token"))
         ELSE Return(Undefined)
    [] OTHER -> Return(Undefined)
\* BasicAuthHandler/TokenAuthHandler/NoAuthHandler.validate on the fields held
validateFields(handler) ==
  CASE handler.type = "basic" ->
         IF NotAString(handler.username)
         THEN Throw(Thrown("Error", "Basic authentication requires a valid username"))
         ELSE IF NotAString(handler.password)
         THEN Throw(Thrown("Error", "Basic authentication requires a valid password"))
         ELSE Return(Undefined)
    [] handler.type = "token" ->
         IF NotAString(handler.token)
         THEN Throw(Thrown("Error", "Token authentication requires a valid token"))
         ELSE IF IsBlank(handler.token.v)
         THEN Throw(Thrown("Error", "Token authentication requires a non-empty token"))
         ELSE Return(Undefined)
    [] OTHER -> Return(Undefined)

\* validate() of a handler constructed with strings
validate(strategy) == validateFields(HandlerFields(strategy))

\* McpRestfulApiServer.createAuthenticationStrategy
createAuthenticationStrategy(config) ==
  CASE config.authType = "basic" ->
         IF "basicAuth" \notin DOMAIN config
         THEN Throw(Thrown("ConfigurationError", "Basic authentication configuration is missing"))
         ELSE Return([type |-> "basic", username |-> config.basicAuth.username,
                      password |-> config.basicAuth.password])
    [] config.authType = "token" ->
         IF "authToken" \notin DOMAIN config \/ config.authToken = ""
         THEN Throw(Thrown("ConfigurationError", "Token authentication configuration is missing"))
         ELSE Return([type |-> "token", token |-> config.authToken])
    [] config.authType = "none" -> Return([type |-> "none"])
    [] OTHER -> Throw(Thrown("ConfigurationError",
                             "Unsupported authentication type: " \o config.authType))

\* one call made by initialize() and how it ended
Ev(name, kind) == [call |-> name, kind |-> kind]

\* the fields of a McpRestfulApiServer after its constructor
NoComponents ==
  [apiClient |-> FALSE, toolHandlers |-> {}, resourceProvider |-> FALSE,
   requestHandlers |-> {}, baseUrlAccessible |-> FALSE]
\* what registerToolHandlers and registerResourceProvider leave in the server
Components ==
  [apiClient |-> TRUE, toolHandlers |-> Tools, resourceProvider |-> TRUE,
   requestHandlers |-> {"tools/list", "tools/call", "resources/list", "resources/read"},
   baseUrlAccessible |-> FALSE]

\* an initialize() that constructs the ApiClient before validating
initializeClientFirst(loaded) ==
  LET created == createAuthenticationStrategy(loaded.value)
      validated == validate(created.value)
  IN IF loaded.kind = "throw"
     THEN [log |-> <<Ev("loadConfig", "throw")>>, outcome |-> loaded,
           strategy |-> [type |-> "none"], server |-> NoComponents]
     ELSE IF created.kind = "throw"
     THEN [log |-> <<Ev("loadConfig", "return"), Ev("createAuthenticationStrategy", "throw")>>,
           outcome |-> created, strategy |-> [type |-> "none"], server |-> NoComponents]
     ELSE IF validated.kind = "throw"
     THEN [log |-> <<Ev("loadConfig", "return"), Ev("createAuthenticationStrategy", "return"),
                     Ev("new ApiClient", "return"), Ev("validate", "throw")>>,
           outcome |-> validated, strategy |-> created.value,
           server |-> [NoComponents EXCEPT !.apiClient = TRUE]]
     ELSE [log |-> <<Ev("loadConfig", "return"), Ev("createAuthenticationStrategy", "return"),
                     Ev("new ApiClient", "return"), Ev("validate", "return"),
                     Ev("registerToolHandlers", "return"),
                     Ev("registerResourceProvider", "return")>>,
           outcome |-> None, strategy |-> created.value, server |-> Components]
\* McpRestfulApiServer.initialize up to validateApiAccessibility: the calls
\* it makes, the strategy it created, the components it leaves in the server,
\* and its completion (None when it goes on to probe the API)
initialize(loaded) ==
  LET created == createAuthenticationStrategy(loaded.value)
      validated == validate(created.value)
  IN IF loaded.kind = "throw"
     THEN [log |-> <<Ev("loadConfig", "throw")>>, outcome |-> loaded,
           strategy |-> [type |-> "none"], server |-> NoComponents]
     ELSE IF created.kind = "throw"
     THEN [log |-> <<Ev("loadConfig", "return"), Ev("createAuthenticationStrategy", "throw")>>,
           outcome |-> created, strategy |-> [type |-> "none"], server |-> NoComponents]
     ELSE IF validated.kind = "throw"
     THEN [log |-> <<Ev("loadConfig", "return"), Ev("createAuthenticationStrategy", "return"),
                     Ev("validate", "throw")>>,
           outcome |-> validated, strategy |-> created.value, server |-> NoComponents]
     ELSE [log |-> <<Ev("loadConfig", "return"), Ev("createAuthenticationStrategy", "return"),
                     Ev("validate", "return"), Ev("new ApiClient", "return"),
                     Ev("registerToolHandlers", "return"),
                     Ev("registerResourceProvider", "return")>>,
           outcome |-> None, strategy |-> created.value, server |-> Components]

\* ApiResourceProvider.validateBaseUrlAccessibility, given the probe's completion
validateBaseUrlAccessibility(completion) ==
  IF completion.kind = "throw" THEN FALSE
  ELSE completion.value["success"].v \/ completion.value["status"].v < 500

\* a validateApiAccessibility that makes an unsuccessful probe fatal
validateApiAccessibilityStrict(probed) ==
  IF probed.kind = "throw" THEN probed
  ELSE IF probed.value THEN Return(Undefined)
  ELSE Throw(Thrown("ServerError", "API base URL is not accessible"))
\* McpRestfulApiServer.validateApiAccessibility, given how
\* validateBaseUrlAccessibility ended: a rejection is caught and logged
validateApiAccessibility(probed) ==
  IF probed.kind = "throw" THEN Return(Undefined) ELSE Return(Undefined)

(* ------------------------------ inputs ---------------------------------- *)
\* an object of the given members, leaving out those chosen as Undefined
MkObject(members) ==
  Obj([k \in {j \in DOMAIN members : members[j].t # "undefined"} |-> members[k]])

PathValues == {Undefined, Str(""), Str("/users"), Num(123)}
HeaderValues == {Undefined, Obj([k \in {"X-Id"} |-> Str("a")]), Obj([k \in {"X-Id"} |-> Num(1)])}
QueryValues == {Undefined, Obj([k \in {"q"} |-> Str("a b")]), Obj([k \in {"q"} |-> Num(1)])}
BodyValues == {Undefined, Null, Obj([k \in {"name"} |-> Str("John")])}
ExtraValues == {Undefined, Str("bar")}

\* request.params.arguments of a tool call
ArgumentValues ==
  {Undefined} \cup
  { MkObject([path |-> p, headers |-> h, queryParams |-> q, body |-> b, foo |-> f]) :
      p \in PathValues, h \in HeaderValues, q \in QueryValues, b \in BodyValues,
      f \in ExtraValues }

\* the options of a direct call of an ApiClient method
OptionValues ==
  {Undefined} \cup
  { MkObject([path |-> p, headers |-> h, queryParams |-> q, body |-> b]) :
      p \in {Str("/users"), Str("/users?page=1")},
      h \in {Undefined, Obj([k \in {"X-Id"} |-> Str("a")])},
      q \in {Undefined, Obj(EmptyMap), Obj([k \in {"q"} |-> Str("a b")]),
             Obj([q |-> Str("hello world"), category |-> Str("tech & science")]),
             Obj([q |-> Str(""), r |-> Str("x")]),
             Obj([q |-> Null, r |-> Str("x")])},
      b \in {Undefined, Null} }

\* what a test double standing in for the ApiClient does when called
StubOutcomes ==
  { Return([success |-> Bool(TRUE), status |-> Num(200),
            data |-> Obj([k \in {"id"} |-> Num(1)]), headers |-> Obj(ReplyHeaders)]),
    Return([success |-> Bool(TRUE), status |-> Num(204), headers |-> Obj(ReplyHeaders)]),
    Return([success |-> Bool(FALSE), status |-> Num(404), error |-> Str("Not Found")]),
    Return([success |-> Bool(FALSE), status |-> Num(500)]),
    Return([success |-> Bool(FALSE), status |-> Num(0), error |-> Str("")]),
    Throw(Thrown("Error", "Network error")),
    Throw(Thrown("NonError", "")) }

\* the strategies a server is configured with
Strategies ==
  { [type |-> "none"],
    [type |-> "token", token |-> "abc"],
    [type |-> "basic", username |-> "testuser", password |-> "testpass"],
    [type |-> "custom"] }

(* ------------------------------- state ---------------------------------- *)
VARIABLES
  apiClient,     \* what the handlers were constructed with: "ApiClient" or "mock"
  authStrategy,  \* the strategy the ApiClient was constructed with
  pc,            \* "idle", "awaiting" while a request is with the transport, "done"
  nCalls,        \* calls made so far
  call,          \* the call being served, or served last
  clientCalls,   \* the ApiClient methods that call invoked, with their options
  authCalls,     \* the configurations applyAuth was called with during that call
  transport,     \* the requests that call handed to the transport
  reply,         \* what the transport did with the request
  clientCaught,  \* the exception the ApiClient method caught
  clientResult,  \* the completion of the ApiClient method
  caught,        \* the exception handleCall caught
  result,        \* the completion of handleCall
  heap,          \* the objects of one applyAuth call, by address
  authRun,       \* that call: strategy, argument, heap before, returned address
  server,        \* the components McpRestfulApiServer holds
  initLog,       \* the calls initialize() made, in order, with how each ended
  initResult,    \* the completion of initialize()
  slots,         \* the ApiClient calls made in parallel, each with its own promise
  clientDefaults, \* the defaults of the axios instance the ApiClient created
  fn,            \* one run of a single function: its name, input and completion
  provider       \* the paths the remote API answers (now, at the last listing and at
                 \* the last read), the last listing, the URI read and what reading gave

vars == <<apiClient, authStrategy, pc, nCalls, call, clientCalls, authCalls, transport,
          reply, clientCaught, clientResult, caught, result, heap, authRun,
          server, initLog, initResult, slots, clientDefaults, fn, provider>>

\* the variables of the runs of single functions, which calls leave alone
asideVars == <<heap, authRun, server, initLog, initResult, slots, clientDefaults, fn, provider>>

NoCall == [via |-> "none", tool |-> "", verb |-> "", args |-> Undefined]
\* no single function has run; no resource has been listed or read
NoFn == [name |-> "none", input |-> <<>>, output |-> None]
NoProvider ==
  [up |-> {}, at |-> {}, listed |-> None, uri |-> "", readAt |-> {}, read |-> None]
NoRun == [strategy |-> [type |-> "none"], arg |-> 0, before |-> <<>>, returned |-> 0]
\* the configuration axios.create is given
InstanceDefaults ==
  [baseURL |-> "https://api.example.com", timeout |-> 30000, headers |-> DefaultHeaders]

Init ==
  /\ apiClient \in {"ApiClient", "mock"}
  /\ authStrategy \in (IF apiClient = "mock" THEN {[type |-> "none"]} ELSE Strategies)
  /\ pc = "idle"
  /\ nCalls = 0
  /\ call = NoCall
  /\ clientCalls = <<>>
  /\ authCalls = <<>>
  /\ transport = <<>>
  /\ reply = None
  /\ clientCaught = None
  /\ clientResult = None
  /\ caught = None
  /\ result = None
  /\ heap = <<>>
  /\ authRun = NoRun
  /\ server = NoComponents
  /\ initLog = <<>>
  /\ initResult = None
  /\ slots = <<>>
  /\ clientDefaults = InstanceDefaults
  /\ fn = NoFn
  /\ provider = NoProvider

\* handleCall of the handler of `tool`, up to its first await on the transport
HandleCall(tool, args, stub) ==
  LET validated == validateArguments(SchemaOf(tool), args)
      options == RequestOptions(tool, validated.value)
      started == ClientStart(authStrategy, VerbOf(tool), options)
  IN /\ pc = "idle"
     /\ nCalls < MaxCalls
     /\ nCalls' = nCalls + 1
     /\ call' = [via |-> "tool", tool |-> tool, verb |-> VerbOf(tool), args |-> args]
     /\ reply' = None
     /\ UNCHANGED <<apiClient, authStrategy, asideVars>>
     /\ IF validated.kind = "throw"
        THEN /\ stub = None
             /\ clientCalls' = <<>>
             /\ authCalls' = <<>>
             /\ transport' = <<>>
             /\ clientCaught' = None
             /\ clientResult' = None
             /\ caught' = validated
             /\ result' = HandlerFinish(validated)
             /\ pc' = "done"
        ELSE IF apiClient = "mock"
        THEN /\ stub \in StubOutcomes
             /\ clientCalls' = <<[verb |-> VerbOf(tool), options |-> options]>>
             /\ authCalls' = <<>>
             /\ transport' = <<>>
             /\ clientCaught' = None
             /\ clientResult' = stub
             /\ caught' = IF stub.kind = "throw" THEN stub ELSE None
             /\ result' = HandlerFinish(stub)
             /\ pc' = "done"
        ELSE /\ stub = None
             /\ clientCalls' = <<[verb |-> VerbOf(tool), options |-> options]>>
             /\ authCalls' = started.applied
             /\ transport' = started.sent
             /\ clientCaught' = started.caught
             /\ clientResult' = started.outcome
             /\ caught' = None
             /\ result' = IF started.outcome = None THEN None ELSE HandlerFinish(started.outcome)
             /\ pc' = IF started.outcome = None THEN "awaiting" ELSE "done"

\* a direct call of ApiClient.get/post/put/patch/delete, up to its await
ClientCall(verb, options) ==
  LET started == ClientStart(authStrategy, verb, options)
  IN /\ pc = "idle"
     /\ apiClient = "ApiClient"
     /\ nCalls < MaxCalls
     /\ nCalls' = nCalls + 1
     /\ call' = [via |-> "client", tool |-> "", verb |-> verb, args |-> options]
     /\ reply' = None
     /\ clientCalls' = <<[verb |-> verb, options |-> options]>>
     /\ authCalls' = started.applied
     /\ transport' = started.sent
     /\ clientCaught' = started.caught
     /\ clientResult' = started.outcome
     /\ caught' = None
     /\ result' = None
     /\ pc' = IF started.outcome = None THEN "awaiting" ELSE "done"
     /\ UNCHANGED <<apiClient, authStrategy, asideVars>>

\* a transport without a timeout: a request that gets no response stays
\* pending and the method never resumes
TransportReplyNoTimeout(r) ==
  LET finished == ClientFinish(call.verb, r)
  IN /\ pc = "awaiting"
     /\ IF r.kind = "noResponse"
        THEN /\ pc' = "pending"
             /\ UNCHANGED <<reply, clientCaught, clientResult, result>>
        ELSE /\ reply' = r
             /\ clientCaught' = finished.caught
             /\ clientResult' = finished.outcome
             /\ result' = IF call.via = "tool" THEN HandlerFinish(finished.outcome) ELSE None
             /\ pc' = "done"
     /\ UNCHANGED <<apiClient, authStrategy, nCalls, call, clientCalls, authCalls,
                    transport, caught, asideVars>>
\* a client that sends a failed request a second time before reporting
TransportReplyRetry(r) ==
  LET finished == ClientFinish(call.verb, r)
  IN /\ pc = "awaiting"
     /\ reply' = r
     /\ IF AxiosSettle(r).kind = "throw" /\ Len(transport) < 2
        THEN /\ transport' = Append(transport, transport[1])
             /\ UNCHANGED <<pc, clientCaught, clientResult, result>>
        ELSE /\ clientCaught' = finished.caught
             /\ clientResult' = finished.outcome
             /\ result' = IF call.via = "tool" THEN HandlerFinish(finished.outcome) ELSE None
             /\ pc' = "done"
             /\ UNCHANGED transport
     /\ UNCHANGED <<apiClient, authStrategy, nCalls, call, clientCalls, authCalls, caught,
                    asideVars>>
\* the transport acts on the request in flight; the ApiClient method resumes
\* and, for a tool call, handleCall formats its result
TransportReply(r) ==
  LET finished == ClientFinish(call.verb, r)
  IN /\ pc = "awaiting"
     /\ reply' = r
     /\ clientCaught' = finished.caught
     /\ clientResult' = finished.outcome
     /\ result' = IF call.via = "tool" THEN HandlerFinish(finished.outcome) ELSE None
     /\ pc' = "done"
     /\ UNCHANGED <<apiClient, authStrategy, nCalls, call, clientCalls, authCalls,
                    transport, caught, asideVars>>

\* the call returns to its caller: the options, the ApiResponse and the
\* envelope of the call are dropped, only the client and its strategy stay
ReturnToCaller ==
  /\ pc = "done"
  /\ pc' = "idle"
  /\ call' = NoCall
  /\ clientCalls' = <<>>
  /\ authCalls' = <<>>
  /\ transport' = <<>>
  /\ reply' = None
  /\ clientCaught' = None
  /\ clientResult' = None
  /\ caught' = None
  /\ result' = None
  /\ UNCHANGED <<apiClient, authStrategy, nCalls, asideVars>>

\* a test double is asked for an outcome only when the handler calls it
StubChoices(tool, args) ==
  IF pc # "idle" \/ nCalls >= MaxCalls THEN {}
  ELSE IF apiClient = "mock" /\ validateArguments(SchemaOf(tool), args).kind = "return"
  THEN StubOutcomes ELSE {None}

Next ==
  \/ \E tool \in Tools, args \in ArgumentValues :
       \E stub \in StubChoices(tool, args) : HandleCall(tool, args, stub)
  \/ \E verb \in Verbs, options \in OptionValues : ClientCall(verb, options)
  \/ \E r \in Replies : TransportReply(r)
  \/ ReturnToCaller

Spec == Init /\ [][Next]_vars

\* axios.create is given timeout: 30000, so the transport settles every
\* request it was handed: with a response, or with an error when the timeout
\* expires or the request cannot be sent
FairSpec == Spec /\ WF_vars(\E r \in Replies : TransportReply(r))

(* ------------------------- the server from startup ---------------------- *)
\* what loadConfig() returns or throws
LoadOutcomes ==
  { Throw(Thrown("ConfigurationError", "Configuration validation failed")),
    Return([baseUrl |-> "https://api.example.com", authType |-> "none"]),
    Return([baseUrl |-> "https://api.example.com", authType |-> "token", authToken |-> "abc"]),
    Return([baseUrl |-> "https://api.example.com", authType |-> "token", authToken |-> "  "]),
    Return([baseUrl |-> "https://api.example.com", authType |-> "token"]),
    Return([baseUrl |-> "https://api.example.com", authType |-> "basic",
            basicAuth |-> [username |-> "testuser", password |-> "testpass"]]),
    Return([baseUrl |-> "https://api.example.com", authType |-> "basic",
            basicAuth |-> [username |-> "", password |-> "testpass"]]),
    Return([baseUrl |-> "https://api.example.com", authType |-> "basic"]),
    Return([baseUrl |-> "https://api.example.com", authType |-> "oauth"]) }

\* how the probe can end: what the transport does with its request, or a
\* rejection of a test double for validateBaseUrlAccessibility
ProbeOutcomes == Replies \cup {[kind |-> "rejects", message |-> "Network error"]}

\* the arguments of the tool calls a started server is sent
StartupArguments ==
  { Obj([k \in {"path"} |-> Str("/users")]),
    Obj([k \in {"path"} |-> Str("")]),
    Obj([path |-> Str("/users"), headers |-> Obj([k \in {"X-Id"} |-> Str("a")])]),
    Obj([path |-> Str("/users"),
         headers |-> Obj([k \in {"Authorization"} |-> Str("Bearer caller")])]) }

\* new McpRestfulApiServer()
InitStartup ==
  /\ apiClient = "none"
  /\ authStrategy = [type |-> "none"]
  /\ pc = "constructed"
  /\ nCalls = 0
  /\ call = NoCall
  /\ clientCalls = <<>>
  /\ authCalls = <<>>
  /\ transport = <<>>
  /\ reply = None
  /\ clientCaught = None
  /\ clientResult = None
  /\ caught = None
  /\ result = None
  /\ heap = <<>>
  /\ authRun = NoRun
  /\ server = NoComponents
  /\ initLog = <<>>
  /\ initResult = None
  /\ slots = <<>>
  /\ clientDefaults = InstanceDefaults
  /\ fn = NoFn
  /\ provider = NoProvider

\* initialize() up to its await of the accessibility probe, which is
\* apiClient.get({ path: "/" })
Initialize(loaded) ==
  LET init == initialize(loaded)
      probe == Obj([k \in {"path"} |-> Str("/")])
      started == ClientStart(init.strategy, "GET", probe)
  IN /\ pc = "constructed"
     /\ server' = init.server
     /\ UNCHANGED <<nCalls, reply, caught, result, heap, authRun, slots, clientDefaults, fn, provider>>
     /\ IF init.outcome.kind = "throw"
        THEN /\ pc' = "failed"
             /\ initLog' = init.log
             /\ initResult' = init.outcome
             /\ apiClient' = IF init.server.apiClient THEN "ApiClient" ELSE "none"
             /\ authStrategy' = init.strategy
             /\ UNCHANGED <<call, clientCalls, authCalls, transport, clientCaught, clientResult>>
        ELSE /\ pc' = "probing"
             /\ initLog' = init.log \o <<Ev("validateApiAccessibility", "await")>>
                              \o [i \in 1..Len(started.sent) |-> Ev("request", "await")]
             /\ initResult' = None
             /\ apiClient' = "ApiClient"
             /\ authStrategy' = init.strategy
             /\ call' = [via |-> "probe", tool |-> "", verb |-> "GET", args |-> probe]
             /\ clientCalls' = <<[verb |-> "GET", options |-> probe]>>
             /\ authCalls' = started.applied
             /\ transport' = started.sent
             /\ clientCaught' = started.caught
             /\ clientResult' = started.outcome

\* the probe ends: the transport acts on its request and
\* validateBaseUrlAccessibility records the result, or a test double standing
\* in for the resource provider rejects; validateApiAccessibility returns to
\* initialize()
ProbeReply(r) ==
  LET finished == ClientFinish("GET", r)
      probed == IF r.kind = "rejects" THEN Throw(Thrown("Error", r.message))
                ELSE Return(validateBaseUrlAccessibility(finished.outcome))
      completion == validateApiAccessibility(probed)
  IN /\ pc = "probing"
     /\ server' = IF probed.kind = "return"
                  THEN [server EXCEPT !.baseUrlAccessible = probed.value] ELSE server
     /\ initLog' = Append(initLog, [call |-> "validateBaseUrlAccessibility",
                                    kind |-> probed.kind, reply |-> r])
     /\ initResult' = completion
     /\ pc' = IF completion.kind = "throw" THEN "failed" ELSE "idle"
     /\ call' = NoCall
     /\ clientCalls' = <<>>
     /\ authCalls' = <<>>
     /\ transport' = <<>>
     /\ clientCaught' = None
     /\ clientResult' = None
     /\ UNCHANGED <<apiClient, authStrategy, nCalls, reply, caught, result,
                    heap, authRun, slots, clientDefaults, fn, provider>>

NextStartup ==
  \/ \E loaded \in LoadOutcomes : Initialize(loaded)
  \/ \E r \in ProbeOutcomes : ProbeReply(r)
  \/ \E tool \in Tools, args \in StartupArguments : HandleCall(tool, args, None)
  \/ \E r \in Replies : TransportReply(r)
  \/ ReturnToCaller
SpecStartup == InitStartup /\ [][NextStartup]_vars

(* --------------------- applyAuth as a function on its own --------------- *)
\* the strategies applyAuth is run for
AuthStrategies ==
  { [type |-> "none"],
    [type |-> "token", token |-> "abc"],
    [type |-> "token", token |-> "t-1"],
    [type |-> "basic", username |-> "testuser", password |-> "testpass"],
    [type |-> "basic", username |-> "admin", password |-> "secret"] }

\* the request configurations it is given
AuthHeaderValues ==
  { Undefined,
    Obj(EmptyMap),
    Obj([k \in {"Content-Type"} |-> Str("application/json")]),
    Obj([k \in {"X-Custom"} |-> Str("value")]),
    Obj([k \in {"Authorization"} |-> Str("Bearer old")]),
    Obj([k \in {"Content-Type", "Authorization"} |->
           IF k = "Authorization" THEN Str("Bearer old") ELSE Str("application/json")]) }
AuthConfigs ==
  { LET members == MkObject([url |-> u, method |-> m, headers |-> h]).v
    IN [k \in DOMAIN members |-> IF k = "headers" THEN members[k].v ELSE members[k]] :
      u \in {Undefined, Str("/test")}, m \in {Undefined, Str("GET")}, h \in AuthHeaderValues }

\* the calling variables while no server is running
CallsAtRest ==
  /\ apiClient = "mock"
  /\ authStrategy = [type |-> "none"]
  /\ pc = "idle"
  /\ nCalls = 0
  /\ call = NoCall
  /\ clientCalls = <<>>
  /\ authCalls = <<>>
  /\ transport = <<>>
  /\ reply = None
  /\ clientCaught = None
  /\ clientResult = None
  /\ caught = None
  /\ result = None
callVars == <<apiClient, authStrategy, pc, nCalls, call, clientCalls, authCalls, transport,
              reply, clientCaught, clientResult, caught, result>>

\* a caller holds a configuration and a strategy
InitAuth ==
  /\ CallsAtRest
  /\ authRun \in { [strategy |-> st, arg |-> Len(HeapOf(c)), before |-> HeapOf(c),
                     returned |-> 0] : st \in AuthStrategies, c \in AuthConfigs }
  /\ heap = authRun.before
  /\ server = NoComponents
  /\ initLog = <<>>
  /\ initResult = None
  /\ slots = <<>>
  /\ clientDefaults = InstanceDefaults
  /\ fn = NoFn
  /\ provider = NoProvider

\* strategy.applyAuth(config)
ApplyAuth ==
  LET applied == applyAuthOnHeap(authRun.strategy, heap, authRun.arg)
  IN /\ authRun.returned = 0
     /\ heap' = applied.heap
     /\ authRun' = [authRun EXCEPT !.returned = applied.ref]
     /\ UNCHANGED <<callVars, server, initLog, initResult, slots, clientDefaults, fn, provider>>

NextAuth == ApplyAuth
SpecAuth == InitAuth /\ [][NextAuth]_vars

(* ----------------------- ApiClient calls in parallel -------------------- *)
ParallelVerbs == {"GET", "POST"}
ParallelOptions == { Obj([k \in {"path"} |-> Str(p)]) : p \in {"/a", "/b"} }

\* what the transport can do with a request: the server answers 200 with the
\* requested URL as data, or 404, or nothing before the timeout
RepliesTo(request) ==
  { [kind |-> "response", status |-> 200, statusText |-> "OK",
     data |-> Str(request.url), headers |-> ReplyHeaders],
    [kind |-> "response", status |-> 404, statusText |-> "Not Found",
     data |-> Obj(EmptyMap), headers |-> ReplyHeaders],
    [kind |-> "noResponse", message |-> "timeout of 30000ms exceeded"] }

FreeSlot ==
  [state |-> "free", verb |-> "", options |-> Undefined, sent |-> <<>>, reply |-> None,
   response |-> None]

\* one ApiClient, no call made
InitParallel ==
  /\ apiClient = "ApiClient"
  /\ authStrategy \in {[type |-> "none"], [type |-> "token", token |-> "abc"], [type |-> "custom"]}
  /\ pc = "idle"
  /\ nCalls = 0
  /\ call = NoCall
  /\ clientCalls = <<>>
  /\ authCalls = <<>>
  /\ transport = <<>>
  /\ reply = None
  /\ clientCaught = None
  /\ clientResult = None
  /\ caught = None
  /\ result = None
  /\ heap = <<>>
  /\ authRun = NoRun
  /\ server = NoComponents
  /\ initLog = <<>>
  /\ initResult = None
  /\ slots = [i \in 1..MaxParallel |-> FreeSlot]
  /\ clientDefaults = InstanceDefaults
  /\ fn = NoFn
  /\ provider = NoProvider

\* a caller calls get/post without awaiting the calls already made
ParallelCall(i, verb, options) ==
  LET started == ClientStart(authStrategy, verb, options)
  IN /\ slots[i].state = "free"
     /\ slots' = [slots EXCEPT ![i] =
                    [state |-> IF started.outcome = None THEN "awaiting" ELSE "done",
                     verb |-> verb, options |-> options, sent |-> started.sent,
                     reply |-> None, response |-> started.outcome]]
     /\ UNCHANGED <<callVars, heap, authRun, server, initLog, initResult, clientDefaults, fn, provider>>

\* a client that keeps the last response in a field all calls read
SettleShared(i, r) ==
  LET finished == ClientFinish(slots[i].verb, r)
  IN /\ slots[i].state = "awaiting"
     /\ slots' = [j \in DOMAIN slots |->
                    IF j = i
                    THEN [slots[j] EXCEPT !.state = "done", !.reply = r,
                                          !.response = finished.outcome]
                    ELSE IF slots[j].state = "done"
                    THEN [slots[j] EXCEPT !.response = finished.outcome]
                    ELSE slots[j]]
     /\ UNCHANGED <<callVars, heap, authRun, server, initLog, initResult, clientDefaults, fn, provider>>
\* the transport acts on the request of one call; that call's method resumes
Settle(i, r) ==
  LET finished == ClientFinish(slots[i].verb, r)
  IN /\ slots[i].state = "awaiting"
     /\ slots' = [slots EXCEPT ![i] =
                    [@ EXCEPT !.state = "done", !.reply = r, !.response = finished.outcome]]
     /\ UNCHANGED <<callVars, heap, authRun, server, initLog, initResult, clientDefaults, fn, provider>>

\* the caller has taken the ApiResponse of a call
Release(i) ==
  /\ slots[i].state = "done"
  /\ slots' = [slots EXCEPT ![i] = FreeSlot]
  /\ UNCHANGED <<callVars, heap, authRun, server, initLog, initResult, clientDefaults, fn, provider>>

NextParallel ==
  \/ \E i \in 1..MaxParallel, verb \in ParallelVerbs, options \in ParallelOptions :
       ParallelCall(i, verb, options)
  \/ \E i \in 1..MaxParallel :
       \E r \in (IF slots[i].state = "awaiting" THEN RepliesTo(slots[i].sent[1]) ELSE {}) :
         Settle(i, r)
  \/ \E i \in 1..MaxParallel : Release(i)
SpecParallel == InitParallel /\ [][NextParallel]_vars

(* ------------------------------ properties ------------------------------ *)
\* the arguments a verb accepts, read off the schema declarations
AllowedKeys(tool) ==
  CASE tool = "api_get" -> {"path", "headers", "queryParams"}
    [] tool = "api_delete" -> {"path", "headers"}
    [] OTHER -> {"path", "headers", "body"}
StringMap(x) == x.t = "object" /\ \A k \in DOMAIN x.v : x.v[k].t = "string"
WellFormed(tool, args) ==
  /\ args.t = "object"
  /\ DOMAIN args.v \subseteq AllowedKeys(tool)
  /\ Get(args, "path").t = "string"
  /\ Len(Get(args, "path").v) >= 1
  /\ "headers" \in DOMAIN args.v => StringMap(args.v["headers"])
  /\ "queryParams" \in DOMAIN args.v => StringMap(args.v["queryParams"])

\* a tool call has returned / a call has gone through the real ApiClient
ToolDone == call.via = "tool" /\ pc = "done"
ClientDone == apiClient = "ApiClient" /\ pc = "done" /\ Len(clientCalls) > 0

\* the parsed JSON text of an envelope
EnvelopeDoc(env) == JSONparse(env.content[1].text)
IsErrorEnvelope(env) ==
  /\ "isError" \in DOMAIN env
  /\ env.isError = TRUE
  /\ Get(EnvelopeDoc(env), "success") = Bool(FALSE)
IsApiResponse(r) ==
  /\ {"success", "status"} \subseteq DOMAIN r
  /\ DOMAIN r \subseteq {"success", "status", "data", "error", "headers"}
  /\ r["success"].t = "boolean"
  /\ r["status"].t = "number"

C2_ResponseShape ==
  (ClientDone /\ clientResult.kind = "return") =>
    LET r == clientResult.value
    IN /\ (r["success"] = Bool(TRUE)) <=> (Field(r, "error").t = "undefined")
       /\ (r["success"] = Bool(FALSE))
            <=> (Field(r, "data").t = "undefined" /\ Field(r, "error").t # "undefined")
\* a 404 with a response body came back as a failure without data
C2_Witness ==
  /\ ClientDone
  /\ reply.kind = "response"
  /\ reply.status = 404
  /\ clientResult.kind = "return"
  /\ clientResult.value["success"] = Bool(FALSE)
  /\ "data" \notin DOMAIN clientResult.value

\* C3: a handleCall whose arguments fail validation returns an isError
\* envelope, invokes no ApiClient method and issues no HTTP request.
C3_InvalidNeverReachesClient ==
  (call.via = "tool" /\ ~WellFormed(call.tool, call.args)) =>
    /\ pc = "done"
    /\ result.kind = "return"
    /\ IsErrorEnvelope(result.value)
    /\ Len(clientCalls) = 0
    /\ Len(transport) = 0
\* api_delete was called with a body besides a valid path
C3_Witness ==
  /\ ToolDone
  /\ call.tool = "api_delete"
  /\ call.args.t = "object"
  /\ DOMAIN call.args.v = {"path", "body"}
  /\ call.args.v["path"] = Str("/users")
  /\ IsErrorEnvelope(result.value)
  /\ Len(clientCalls) = 0

\* C4: each verb's schema is closed: a key outside the verb's set, or a
\* header or query-parameter value that is not a string, fails validation
\* with a message containing "Invalid arguments"; arguments that use only
\* the verb's keys with valid values are accepted and reach the client.
HasForeignKey(tool, args) == ~(DOMAIN args.v \subseteq AllowedKeys(tool))
HasNonStringEntry(tool, args, key) ==
  /\ key \in DOMAIN args.v \cap AllowedKeys(tool)
  /\ args.v[key].t = "object"
  /\ \E k \in DOMAIN args.v[key].v : args.v[key].v[k].t # "string"
C4_ClosedSchemas ==
  (ToolDone /\ call.args.t = "object") =>
    /\ ( \/ HasForeignKey(call.tool, call.args)
         \/ HasNonStringEntry(call.tool, call.args, "headers")
         \/ HasNonStringEntry(call.tool, call.args, "queryParams") )
       => /\ result.kind = "return"
          /\ IsErrorEnvelope(result.value)
          /\ Contains(Get(EnvelopeDoc(result.value), "error").v, "Invalid arguments")
    /\ WellFormed(call.tool, call.args) => Len(clientCalls) = 1
\* api_post was called with queryParams and rejected for the unknown key
C4_Witness ==
  /\ ToolDone
  /\ call.tool = "api_post"
  /\ call.args.t = "object"
  /\ DOMAIN call.args.v = {"path", "queryParams"}
  /\ call.args.v["path"] = Str("/users")
  /\ StringMap(call.args.v["queryParams"])
  /\ Contains(Get(EnvelopeDoc(result.value), "error").v, "Invalid arguments: root: Unrecognized key")

\* C5: handleCall never throws; when validation or the ApiClient method
\* throws, the result is an isError envelope whose JSON has success:false and
\* error = the exception's message, or "Unknown error occurred" when the
\* thrown value is not an Error.
C5_HandlerNeverThrows ==
  ToolDone =>
    /\ result.kind = "return"
    /\ (~WellFormed(call.tool, call.args) \/ clientResult.kind = "throw")
         => /\ caught.kind = "throw"
            /\ clientResult.kind = "throw" => caught = clientResult
            /\ IsErrorEnvelope(result.value)
            /\ Get(EnvelopeDoc(result.value), "error")
                 = Str(IF InstanceOfError(caught.error) THEN caught.error.message
                       ELSE "Unknown error occurred")
\* the client threw a value that is no Error
C5_Witness ==
  /\ ToolDone
  /\ clientResult.kind = "throw"
  /\ ~InstanceOfError(clientResult.error)
  /\ result.kind = "return"
  /\ Get(EnvelopeDoc(result.value), "error") = Str("Unknown error occurred")

\* C6: every envelope handleCall returns has exactly one content item, of
\* type text, whose JSON is {success:true, status, data, headers} with isError
\* not set, or {success:false, error, details} with isError = true; members
\* whose value is undefined are not in the JSON text, and an ApiResponse of
\* the real client always has all four.
C6_EnvelopeShape ==
  (ToolDone /\ result.kind = "return") =>
    LET env == result.value
        doc == EnvelopeDoc(env)
    IN /\ DOMAIN env.content = {1}
       /\ env.content[1].type = "text"
       /\ doc.t = "object"
       /\ Get(doc, "success").t = "boolean"
       /\ IF Get(doc, "success").v
          THEN /\ DOMAIN env = {"content"}
               /\ {"success", "status"} \subseteq DOMAIN doc.v
               /\ DOMAIN doc.v \subseteq {"success", "status", "data", "headers"}
               /\ "data" \in DOMAIN doc.v <=> Field(clientResult.value, "data").t # "undefined"
               /\ "headers" \in DOMAIN doc.v <=> Field(clientResult.value, "headers").t # "undefined"
               /\ apiClient = "ApiClient" => DOMAIN doc.v = {"success", "status", "data", "headers"}
          ELSE /\ DOMAIN env = {"content", "isError"}
               /\ env.isError = TRUE
               /\ {"success", "error"} \subseteq DOMAIN doc.v
               /\ DOMAIN doc.v \subseteq {"success", "error", "details"}
               /\ "details" \notin DOMAIN doc.v
                    <=> (caught.kind = "throw" /\ ~InstanceOfError(caught.error))
\* a successful call through the real client produced a success envelope
C6_Witness ==
  /\ ToolDone
  /\ apiClient = "ApiClient"
  /\ reply.kind = "response"
  /\ reply.status = 200
  /\ result.kind = "return"
  /\ DOMAIN result.value = {"content"}
  /\ Get(EnvelopeDoc(result.value), "success") = Bool(TRUE)

\* C7: when the ApiClient method returns success=false, handleCall returns an
\* isError envelope with error = the ApiResponse's error ("Unknown API error"
\* when that is missing or empty) and details exactly {status}.
C7_ApiFailureEnvelope ==
  (ToolDone /\ clientResult.kind = "return"
     /\ Field(clientResult.value, "success") = Bool(FALSE)) =>
    LET r == clientResult.value
        doc == EnvelopeDoc(result.value)
    IN /\ result.kind = "return"
       /\ IsErrorEnvelope(result.value)
       /\ Get(doc, "error") =
            (IF Field(r, "error").t = "undefined" \/ Field(r, "error") = Str("")
             THEN Str("Unknown API error") ELSE Field(r, "error"))
       /\ Get(doc, "details") = Obj([status |-> r["status"]])
\* the client returned a failure without an error text
C7_Witness ==
  /\ ToolDone
  /\ clientResult.kind = "return"
  /\ clientResult.value["success"] = Bool(FALSE)
  /\ "error" \notin DOMAIN clientResult.value
  /\ Get(EnvelopeDoc(result.value), "error") = Str("Unknown API error")
  /\ Get(EnvelopeDoc(result.value), "details") = Obj([status |-> Num(500)])

\* C8 as stated: when argument validation fails, the error envelope carries
\* error = the validation message and no details member.
C8_NoDetails ==
  (ToolDone /\ ~WellFormed(call.tool, call.args)) =>
    /\ IsErrorEnvelope(result.value)
    /\ Get(EnvelopeDoc(result.value), "error")
         = Str(validateArguments(SchemaOf(call.tool), call.args).error.message)
    /\ "details" \notin DOMAIN EnvelopeDoc(result.value).v
\* C8 amended: when argument validation fails, the error envelope carries
\* error = the validation message, which starts with "Invalid arguments: ",
\* and details = {name, stack} of the Error validation threw.
C8_ValidationEnvelope ==
  (ToolDone /\ ~WellFormed(call.tool, call.args)) =>
    LET doc == EnvelopeDoc(result.value)
        thrown == validateArguments(SchemaOf(call.tool), call.args).error
    IN /\ IsErrorEnvelope(result.value)
       /\ Get(doc, "error") = Str(thrown.message)
       /\ StartsWith(Get(doc, "error").v, "Invalid arguments: ")
       /\ Get(doc, "details") = Obj([name |-> Str("Error"), stack |-> Str(StackOf(thrown))])
\* a call with an empty path was rejected and its envelope has details
C8_Witness ==
  /\ ToolDone
  /\ call.args = Obj([k \in {"path"} |-> Str("")])
  /\ IsErrorEnvelope(result.value)
  /\ "details" \in DOMAIN EnvelopeDoc(result.value).v

\* C9 as stated: for every error thrown while performing a call, classified
\* ApiClientError or not, the ApiResponse has
\* error = "<VERB> request failed: <message>".
C9_AlwaysPrefixed ==
  (ClientDone /\ clientCaught.kind = "throw") =>
    /\ clientResult.kind = "return"
    /\ Field(clientResult.value, "error")
         = Str(call.verb \o " request failed: " \o clientCaught.error.message)
\* C9 amended: an error that is not an ApiClientError yields
\* error = "<VERB> request failed: <message>" ("Unknown error" as message when
\* the thrown value is not an Error); a classified ApiClientError produced by
\* the interceptors yields error = its own message, without the verb prefix.
C9_PrefixUnlessClassified ==
  (ClientDone /\ clientCaught.kind = "throw") =>
    /\ clientResult.kind = "return"
    /\ Field(clientResult.value, "error") =
         (IF clientCaught.error.class = "ApiClientError"
          THEN Str(clientCaught.error.message)
          ELSE Str(call.verb \o " request failed: "
                     \o (IF InstanceOfError(clientCaught.error)
                         THEN clientCaught.error.message ELSE "Unknown error")))
\* a method called without options caught a TypeError and prefixed its verb
C9_Witness ==
  /\ ClientDone
  /\ call.verb = "PATCH"
  /\ clientCaught.kind = "throw"
  /\ clientCaught.error.class = "TypeError"
  /\ StartsWith(clientResult.value["error"].v, "PATCH request failed: Cannot read")

\* C10: a non-2xx answer yields success=false, status = the HTTP status and
\* error = "HTTP <status>: <statusText>"; when no HTTP status is known (no
\* response received, or the request could not be sent) the ApiResponse has
\* success=false and status=0.
C10_StatusOfFailures ==
  (ClientDone /\ clientResult.kind = "return") =>
    LET r == clientResult.value
    IN /\ (reply.kind = "response" /\ ~(reply.status >= 200 /\ reply.status < 300))
            => /\ r["success"] = Bool(FALSE)
               /\ r["status"] = Num(reply.status)
               /\ Field(r, "error")
                    = Str("HTTP " \o ToString(reply.status) \o ": " \o reply.statusText)
       /\ reply.kind \in {"noResponse", "notSent", "none"}
            => /\ r["success"] = Bool(FALSE)
               /\ r["status"] = Num(0)
\* the request was sent and no response came back
C10_Witness ==
  /\ ClientDone
  /\ Len(transport) = 1
  /\ reply.kind = "noResponse"
  /\ clientResult.kind = "return"
  /\ clientResult.value["status"] = Num(0)
  /\ clientResult.value["error"] = Str("Network error: No response received")

\* C11: when applyAuth throws inside the request interceptor, the failure
\* that reaches the verb method is the ApiClientError "Authentication failed"
\* with code AUTH_ERROR, not one reclassified by the response interceptor into
\* HTTP_ERROR, NETWORK_ERROR or REQUEST_ERROR, and the request is not sent.
C11_AuthErrorKept ==
  (ClientDone /\ authStrategy.type = "custom" /\ clientCalls[1].options.t = "object") =>
    /\ Len(transport) = 0
    /\ clientCaught.kind = "throw"
    /\ clientCaught.error.code = "AUTH_ERROR"
    /\ clientCaught.error.message = "Authentication failed"
    /\ clientResult = Return(transformError(
                        ApiClientError("Authentication failed", Undefined, "AUTH_ERROR")))

\* C12: for every get/post/put/patch/delete call made with an options
\* object, applyAuth is applied exactly once, to the configuration in which
\* the per-call headers are merged over the instance's defaults, and it is
\* applied before the transport gets the request: the request the transport
\* gets is the configuration overlaid with what applyAuth returned.  No
\* request reaches the transport without having passed through applyAuth.
C12_AuthAppliedOnce ==
  /\ Len(transport) <= Len(authCalls)
  /\ Len(authCalls) <= 1
  /\ (apiClient = "ApiClient" /\ Len(clientCalls) > 0 /\ clientCalls[1].options.t = "object") =>
       LET options == clientCalls[1].options
           perCall == IF Truthy(Get(options, "headers")) THEN Get(options, "headers").v
                      ELSE EmptyMap
       IN /\ Len(authCalls) = 1
          /\ \A h \in DOMAIN perCall : authCalls[1].headers[h] = perCall[h]
          /\ \A h \in {"Content-Type", "Accept"} \ DOMAIN perCall :
               authCalls[1].headers[h] = Str("application/json")
          /\ Len(transport) = 1 =>
               /\ applyAuth(authStrategy, authCalls[1]).kind = "return"
               /\ transport[1] = Spread(authCalls[1], applyAuth(authStrategy, authCalls[1]).value)
               /\ authStrategy.type = "token"
                    => transport[1].headers["Authorization"] = Str("Bearer abc")
          /\ Len(transport) = 0 => applyAuth(authStrategy, authCalls[1]).kind = "throw"
\* a request with per-call headers went out with the token applied to it
C12_Witness ==
  /\ ClientDone
  /\ authStrategy.type = "token"
  /\ Len(authCalls) = 1
  /\ Len(transport) = 1
  /\ DOMAIN authCalls[1].headers = {"Content-Type", "Accept", "X-Id"}
  /\ authCalls[1].headers["X-Id"] = Str("a")
  /\ transport[1].headers["X-Id"] = Str("a")
  /\ transport[1].headers["Authorization"] = Str("Bearer abc")

\* C17: nothing is retried: a handleCall whose arguments pass validation
\* invokes one ApiClient method, the one of its verb, once; an ApiClient
\* method hands at most one request to the transport; and when that request
\* fails the failure is what the ApiResponse and the envelope report, with
\* still one request sent.
C17_NothingRetried ==
  /\ Len(clientCalls) <= 1
  /\ Len(transport) <= 1
  /\ (call.via = "tool" /\ WellFormed(call.tool, call.args)) =>
       /\ Len(clientCalls) = 1
       /\ clientCalls[1].verb = VerbOf(call.tool)
  /\ (reply.kind # "none" /\ AxiosSettle(reply).kind = "throw") =>
       /\ pc = "done"
       /\ Len(transport) = 1
       /\ clientResult.kind = "return"
       /\ clientResult.value["success"] = Bool(FALSE)
       /\ call.via = "tool" => IsErrorEnvelope(result.value)
\* a POST whose request was answered with 500 was reported after one request
C17_Witness ==
  /\ ToolDone
  /\ call.tool = "api_post"
  /\ WellFormed(call.tool, call.args)
  /\ reply.kind = "response"
  /\ reply.status = 500
  /\ Len(clientCalls) = 1
  /\ Len(transport) = 1
  /\ clientResult.value["success"] = Bool(FALSE)
  /\ IsErrorEnvelope(result.value)

\* C19: the options a handler passes to the ApiClient always contain path;
\* for POST, PUT and PATCH they contain body if and only if the arguments
\* contain a body key, with the same value, null included; headers are in
\* the options if and only if they are in the arguments, and queryParams if
\* and only if the tool is api_get and they are in the arguments; nothing
\* else is passed.
C19_OptionsForwarded ==
  (call.via = "tool" /\ WellFormed(call.tool, call.args) /\ Len(clientCalls) = 1) =>
    LET options == clientCalls[1].options
        args == call.args.v
    IN /\ options.t = "object"
       /\ DOMAIN options.v \subseteq {"path", "headers", "queryParams", "body"}
       /\ "path" \in DOMAIN options.v
       /\ options.v["path"] = args["path"]
       /\ "body" \in DOMAIN options.v
            <=> (call.tool \in {"api_post", "api_put", "api_patch"} /\ "body" \in DOMAIN args)
       /\ "body" \in DOMAIN options.v => options.v["body"] = args["body"]
       /\ "headers" \in DOMAIN options.v <=> "headers" \in DOMAIN args
       /\ "headers" \in DOMAIN options.v => options.v["headers"] = args["headers"]
       /\ "queryParams" \in DOMAIN options.v
            <=> (call.tool = "api_get" /\ "queryParams" \in DOMAIN args)
       /\ "queryParams" \in DOMAIN options.v => options.v["queryParams"] = args["queryParams"]
\* a PUT with an explicit null body passed body: null on to the client
C19_Witness ==
  /\ call.via = "tool"
  /\ call.tool = "api_put"
  /\ call.args = Obj([path |-> Str("/users"), body |-> Null])
  /\ Len(clientCalls) = 1
  /\ clientCalls[1].options = Obj([path |-> Str("/users"), body |-> Null])

\* C20: the URL ApiClient.get requests is path when queryParams is absent or
\* empty, and otherwise path, then "?" (or "&" when path already contains
\* "?"), then the form-encoded parameters in insertion order joined by "&":
\* a space becomes "+", "&" becomes "%26", an empty-string value stays as
\* "key=", and a parameter whose value is null is left out.
C20_GetUrl ==
  (apiClient = "ApiClient" /\ Len(clientCalls) = 1 /\ clientCalls[1].verb = "GET"
     /\ clientCalls[1].options.t = "object" /\ Len(transport) = 1) =>
    LET options == clientCalls[1].options
        path == options.v["path"].v
        params == Get(options, "queryParams")
        query ==
          CASE params = Obj([k \in {"q"} |-> Str("a b")]) -> "q=a+b"
            [] params = Obj([q |-> Str("hello world"), category |-> Str("tech & science")])
                 -> "q=hello+world&category=tech+%26+science"
            [] params = Obj([q |-> Str(""), r |-> Str("x")]) -> "q=&r=x"
            [] params = Obj([q |-> Null, r |-> Str("x")]) -> "r=x"
    IN transport[1].url =
         (IF params.t = "undefined" \/ params = Obj(EmptyMap) THEN path
          ELSE IF path = "/users?page=1" THEN path \o "&" \o query
          ELSE path \o "?" \o query)
\* the example of the specification, on a path that has a query already
C20_Witness ==
  /\ ClientDone
  /\ call.verb = "GET"
  /\ Len(transport) = 1
  /\ Get(clientCalls[1].options, "queryParams")
       = Obj([q |-> Str("hello world"), category |-> Str("tech & science")])
  /\ transport[1].url = "/users?page=1&q=hello+world&category=tech+%26+science"

\* C18: a request handed to the transport eventually completes, and the call
\* that issued it eventually has its result: the ApiClient method returns an
\* ApiResponse and, for a tool call, handleCall returns an envelope.  When the
\* transport's timeout expires the ApiResponse has success=false, the error is
\* classified NETWORK_ERROR or REQUEST_ERROR, and the tool result has
\* isError = true; the call never ends by throwing.
C18_EventuallyCompletes ==
  /\ [](reply.kind = "noResponse" =>
          /\ pc = "done"
          /\ clientCaught.kind = "throw"
          /\ clientCaught.error.code \in {"NETWORK_ERROR", "REQUEST_ERROR"}
          /\ clientResult.kind = "return"
          /\ clientResult.value["success"] = Bool(FALSE)
          /\ call.via = "tool" => (result.kind = "return" /\ IsErrorEnvelope(result.value)))
  /\ (pc = "awaiting") ~>
       (/\ pc = "done"
        /\ clientResult.kind = "return"
        /\ call.via = "tool" => result.kind = "return")
\* a tool call whose request timed out returned an isError envelope
C18_Witness ==
  /\ ToolDone
  /\ Len(transport) = 1
  /\ reply = [kind |-> "noResponse", message |-> "timeout of 30000ms exceeded"]
  /\ clientCaught.error.code = "NETWORK_ERROR"
  /\ result.kind = "return"
  /\ IsErrorEnvelope(result.value)
  /\ Get(EnvelopeDoc(result.value), "error") = Str("Network error: No response received")

\* C14: for NoAuth, Basic and Token and every configuration, applyAuth
\* leaves every object it was given as it was (the configuration still refers
\* to the same headers object, which has the same entries) and returns a
\* configuration object that is not the argument and whose headers object is
\* not the argument's headers object.
C14_ArgumentUntouched ==
  authRun.returned # 0 =>
    /\ Len(heap) >= Len(authRun.before)
    /\ \A a \in 1..Len(authRun.before) : heap[a] = authRun.before[a]
    /\ authRun.returned # authRun.arg
    /\ authRun.returned \notin 1..Len(authRun.before)
    /\ "headers" \in DOMAIN heap[authRun.returned]
    /\ heap[authRun.returned]["headers"].t = "ref"
    /\ heap[authRun.returned]["headers"].a \notin 1..Len(authRun.before)
\* Basic auth was applied to a configuration that has headers of its own
C14_Witness ==
  /\ authRun.returned # 0
  /\ authRun.strategy.type = "basic"
  /\ "headers" \in DOMAIN heap[authRun.arg]
  /\ heap[authRun.arg]["headers"] # heap[authRun.returned]["headers"]
  /\ "Authorization" \notin DOMAIN heap[heap[authRun.arg]["headers"].a]
  /\ "Authorization" \in DOMAIN heap[heap[authRun.returned]["headers"].a]

\* C15: the headers of the configuration applyAuth returns are the input's
\* headers with every entry other than Authorization kept; Basic sets
\* Authorization to "Basic " followed by base64 of username:password, Token
\* sets it to "Bearer " followed by the token, and NoAuth adds and changes
\* nothing.
C15_Headers ==
  authRun.returned # 0 =>
    LET input == Deref(authRun.before, authRun.arg)
        inHeaders == IF "headers" \in DOMAIN input THEN input["headers"] ELSE EmptyMap
        outHeaders == Deref(heap, authRun.returned)["headers"]
        strategy == authRun.strategy
    IN /\ DOMAIN outHeaders \ {"Authorization"} = DOMAIN inHeaders \ {"Authorization"}
       /\ \A h \in DOMAIN inHeaders \ {"Authorization"} : outHeaders[h] = inHeaders[h]
       /\ strategy.type = "none" => outHeaders = inHeaders
       /\ strategy.type = "token" =>
            outHeaders["Authorization"] = Str("Bearer " \o strategy.token)
       /\ strategy = [type |-> "token", token |-> "abc"] =>
            outHeaders["Authorization"] = Str("Bearer abc")
       /\ strategy = [type |-> "basic", username |-> "testuser", password |-> "testpass"] =>
            outHeaders["Authorization"] = Str("Basic dGVzdHVzZXI6dGVzdHBhc3M=")
       /\ strategy = [type |-> "basic", username |-> "admin", password |-> "secret"] =>
            outHeaders["Authorization"] = Str("Basic YWRtaW46c2VjcmV0")
       /\ Deref(heap, authRun.returned) = applyAuth(strategy, input).value
\* a token replaced the Authorization header of the input and kept the rest
C15_Witness ==
  /\ authRun.returned # 0
  /\ authRun.strategy = [type |-> "token", token |-> "abc"]
  /\ "headers" \in DOMAIN authRun.before[authRun.arg]
  /\ Deref(authRun.before, authRun.arg)["headers"]
       = [k \in {"Content-Type", "Authorization"} |->
            IF k = "Authorization" THEN Str("Bearer old") ELSE Str("application/json")]
  /\ Deref(heap, authRun.returned)["headers"]
       = [k \in {"Content-Type", "Authorization"} |->
            IF k = "Authorization" THEN Str("Bearer abc") ELSE Str("application/json")]

\* C13: initialize() calls authStrategy.validate() once, right after the
\* strategy is created and before the ApiClient is constructed or a request
\* is issued.  When validate() throws, initialize() rejects with that error
\* and the server has no ApiClient, tool handler, resource provider or request
\* handler.  While tool calls are handled validate() is not called again.
C13_ValidateOnce ==
  LET Pos(name) == {i \in 1..Len(initLog) : initLog[i].call = name}
      validated == {i \in Pos("validate") : initLog[i].kind = "return"}
  IN /\ Cardinality(Pos("validate")) <= 1
     /\ \A i \in Pos("createAuthenticationStrategy") :
          initLog[i].kind = "return" => i + 1 \in Pos("validate")
     /\ \A v \in Pos("validate") :
          v - 1 \in Pos("createAuthenticationStrategy") /\ initLog[v - 1].kind = "return"
     /\ \A j \in Pos("new ApiClient") \cup Pos("request") : \E v \in validated : v < j
     /\ (server.apiClient \/ apiClient = "ApiClient" \/ Len(transport) > 0) => validated # {}
     /\ (\E v \in Pos("validate") : initLog[v].kind = "throw") =>
          /\ pc = "failed"
          /\ initResult = validate(authStrategy)
          /\ initResult.kind = "throw"
          /\ server = NoComponents
          /\ apiClient = "none"
          /\ Len(transport) = 0
     /\ pc \in {"idle", "awaiting", "done"} =>
          /\ Cardinality(Pos("validate")) = 1
          /\ initResult = Return(Undefined)
\* a blank token made validate() throw and initialize() reject with its error
C13_Witness ==
  /\ pc = "failed"
  /\ Len(initLog) = 3
  /\ initLog[3] = Ev("validate", "throw")
  /\ initResult.kind = "throw"
  /\ initResult.error.message = "Token authentication requires a non-empty token"
  /\ server = NoComponents

\* C16: with ApiClient calls made in parallel or one after another and
\* completing in any order, the ApiResponse of each call is the one the same
\* call yields alone, given its own request and the transport's reply to that
\* request: a 200 answer gives the data answered to its own URL, a 404 gives
\* its own failure, a timeout its own status 0, whatever the other calls did.
\* Every request carries the instance's default headers, and no call changes
\* the instance's base URL, timeout and default headers or the strategy.
C16_Independent ==
  /\ [](\A i \in DOMAIN slots :
          LET slot == slots[i]
              alone == ClientStart(authStrategy, slot.verb, slot.options)
              path == slot.options.v["path"]
          IN /\ slot.state \in {"awaiting", "done"} =>
                  /\ slot.sent = alone.sent
                  /\ \A n \in DOMAIN slot.sent :
                       /\ Str(slot.sent[n].url) = path
                       /\ \A h \in DOMAIN clientDefaults.headers :
                            slot.sent[n].headers[h] = clientDefaults.headers[h]
             /\ slot.state = "done" =>
                  /\ slot.response = (IF alone.outcome # None THEN alone.outcome
                                      ELSE ClientFinish(slot.verb, slot.reply).outcome)
                  /\ slot.response.kind = "return"
                  /\ (slot.reply.kind = "response" /\ slot.reply.status = 200) =>
                       /\ slot.response.value["success"] = Bool(TRUE)
                       /\ slot.response.value["data"] = path
                  /\ (slot.reply.kind = "response" /\ slot.reply.status = 404) =>
                       /\ slot.response.value["success"] = Bool(FALSE)
                       /\ slot.response.value["status"] = Num(404)
                  /\ slot.reply.kind \in {"noResponse", "none"} =>
                       /\ slot.response.value["success"] = Bool(FALSE)
                       /\ slot.response.value["status"] = Num(0))
  /\ [][/\ clientDefaults' = clientDefaults
        /\ authStrategy' = authStrategy
        /\ apiClient' = apiClient]_vars
\* two calls for different paths are done, one answered and one timed out
C16_Witness ==
  /\ slots # <<>>
  /\ slots[1].state = "done"
  /\ slots[2].state = "done"
  /\ slots[1].options = Obj([k \in {"path"} |-> Str("/a")])
  /\ slots[2].options = Obj([k \in {"path"} |-> Str("/b")])
  /\ slots[1].reply.kind = "noResponse"
  /\ slots[2].reply.kind = "response"
  /\ slots[2].reply.status = 200
  /\ slots[1].response.value["status"] = Num(0)
  /\ slots[2].response.value["data"] = Str("/b")

\* C22: for every verb, a tool call whose path is the empty string fails with
\* a message containing "cannot be empty", a call that omits path fails with a
\* message containing "Required", and neither message contains the other's
\* wording, so the two are different texts.
C22_EmptyAndMissingPath ==
  ToolDone =>
    LET error == Get(EnvelopeDoc(result.value), "error")
    IN /\ (call.args.t = "object" /\ Get(call.args, "path") = Str("")) =>
            /\ IsErrorEnvelope(result.value)
            /\ Contains(error.v, "cannot be empty")
            /\ ~Contains(error.v, "Required")
       /\ (call.args.t # "object" \/ "path" \notin DOMAIN call.args.v) =>
            /\ IsErrorEnvelope(result.value)
            /\ Contains(error.v, "Required")
            /\ ~Contains(error.v, "cannot be empty")
\* api_patch was called with an empty path
C22_Witness ==
  /\ ToolDone
  /\ call.tool = "api_patch"
  /\ call.args = Obj([k \in {"path"} |-> Str("")])
  /\ Get(EnvelopeDoc(result.value), "error")
       = Str("Invalid arguments: path: Path is required and cannot be empty")

C27_ProbeNeverFatal ==
  (\E i \in 1..Len(initLog) : initLog[i] = Ev("validate", "return")) =>
    /\ pc # "failed"
    /\ server.apiClient
    /\ server.toolHandlers = Tools
    /\ server.resourceProvider
    /\ server.requestHandlers = {"tools/list", "tools/call", "resources/list", "resources/read"}
    /\ pc = "probing" <=> initResult = None
    /\ pc # "probing" =>
         /\ initResult = Return(Undefined)
         /\ initLog[Len(initLog)].call = "validateBaseUrlAccessibility"
\* the probe was rejected and initialize() resolved with everything registered
C27_Witness ==
  /\ pc = "idle"
  /\ Len(initLog) > 0
  /\ initLog[Len(initLog)].call = "validateBaseUrlAccessibility"
  /\ initLog[Len(initLog)].kind = "throw"
  /\ initResult = Return(Undefined)
  /\ server.toolHandlers = Tools
  /\ server.resourceProvider

\* C29: validateBaseUrlAccessibility() returns false and records the base URL
\* as inaccessible whenever the probe GET to "/" gets no HTTP response or an
\* answer with status 500 or more, and returns true only when a response with
\* status below 500 was received; isBaseUrlAccessible() reports the result of
\* the latest probe.
C29_ProbeResult ==
  \A i \in 1..Len(initLog) :
    (initLog[i].call = "validateBaseUrlAccessibility" /\ initLog[i].kind = "return") =>
      server.baseUrlAccessible
        = (initLog[i].reply.kind = "response" /\ initLog[i].reply.status < 500)

\* C28: with a Basic or Token strategy the Authorization header of every
\* request handed to the transport is the strategy's value, also when the tool
\* call supplies an Authorization entry of its own in headers; with NoAuth the
\* caller's Authorization header is sent as given, and none is sent when the
\* caller gave none.
C28_ConfiguredCredentialWins ==
  \A n \in DOMAIN transport :
    LET sent == transport[n].headers
        options == clientCalls[1].options
        own == IF Truthy(Get(options, "headers")) THEN Get(options, "headers").v ELSE EmptyMap
    IN /\ authStrategy.type = "token" => sent["Authorization"] = Str("Bearer abc")
       /\ authStrategy.type = "basic"
            => sent["Authorization"] = Str("Basic dGVzdHVzZXI6dGVzdHBhc3M=")
       /\ authStrategy.type = "none" =>
            IF "Authorization" \in DOMAIN own
            THEN sent["Authorization"] = own["Authorization"]
            ELSE "Authorization" \notin DOMAIN sent
\* a tool call with an Authorization header of its own went out with the token
C28_Witness ==
  /\ call.via = "tool"
  /\ authStrategy.type = "token"
  /\ Len(transport) = 1
  /\ Get(call.args, "headers") = Obj([k \in {"Authorization"} |-> Str("Bearer caller")])
  /\ clientCalls[1].options.v["headers"].v["Authorization"] = Str("Bearer caller")
  /\ transport[1].headers["Authorization"] = Str("Bearer abc")

(* --------------------- configuration (src/config) ----------------------- *)
\* env[name] of an environment whose variables are strings or unset
EnvVar(env, name) == IF name \in DOMAIN env THEN env[name] ELSE Undefined

\* new URL(s) succeeds: on the strings the model uses, those that open with a scheme
ParsesAsURL(s) == StartsWith(s, "https://") \/ StartsWith(s, "http://")

AuthTypes == {"basic", "token", "none"}

\* z.string().optional()
ZOptionalString(x, path) == IF x.t = "undefined" THEN <<>> ELSE ZString(x, path)

\* EnvSchema: the issues that stop the parse (a wrong type, a value outside the enum)
EnvSchemaAborting(env) ==
  ZString(EnvVar(env, "API_BASE_URL"), <<"API_BASE_URL">>)
  \o (IF EnvVar(env, "API_AUTH_TYPE").t # "string"
         \/ EnvVar(env, "API_AUTH_TYPE").v \notin AuthTypes
      THEN <<Issue(<<"API_AUTH_TYPE">>, "API_AUTH_TYPE must be one of: basic, token, none")>>
      ELSE <<>>)
  \o ZOptionalString(EnvVar(env, "API_AUTH_TOKEN"), <<"API_AUTH_TOKEN">>)
  \o ZOptionalString(EnvVar(env, "API_BASIC_AUTH_USERNAME"), <<"API_BASIC_AUTH_USERNAME">>)
  \o ZOptionalString(EnvVar(env, "API_BASIC_AUTH_PASSWORD"), <<"API_BASIC_AUTH_PASSWORD">>)

\* EnvSchema: the issue that leaves the parse going (the URL check of a string)
EnvSchemaChecks(env) ==
  IF ParsesAsURL(EnvVar(env, "API_BASE_URL").v) THEN <<>>
  ELSE <<Issue(<<"API_BASE_URL">>, "API_BASE_URL must be a valid URL")>>

\* `data.X && data.X.length > 0`
Present(x) == Truthy(x) /\ Len(x.v) > 0

\* the three refinements of ConfigSchema, each run on the parsed variables
Refinements(env) ==
  LET authType == EnvVar(env, "API_AUTH_TYPE").v
  IN (IF authType = "token" /\ ~Present(EnvVar(env, "API_AUTH_TOKEN"))
      THEN <<Issue(<<"API_AUTH_TOKEN">>,
                   "API_AUTH_TOKEN is required when API_AUTH_TYPE is \"token\"")>>
      ELSE <<>>)
     \o (IF authType = "basic" /\ ~Present(EnvVar(env, "API_BASIC_AUTH_USERNAME"))
         THEN <<Issue(<<"API_BASIC_AUTH_USERNAME">>,
                      "API_BASIC_AUTH_USERNAME is required when API_AUTH_TYPE is \"basic\"")>>
         ELSE <<>>)
     \o (IF authType = "basic" /\ ~Present(EnvVar(env, "API_BASIC_AUTH_PASSWORD"))
         THEN <<Issue(<<"API_BASIC_AUTH_PASSWORD">>,
                      "API_BASIC_AUTH_PASSWORD is required when API_AUTH_TYPE is \"basic\"")>>
         ELSE <<>>)

\* ConfigSchema.parse(env): the refinements run unless EnvSchema stopped the parse
ConfigSchemaParse(env) ==
  LET aborting == EnvSchemaAborting(env)
      issues == IF aborting # <<>> THEN aborting
                ELSE EnvSchemaChecks(env) \o Refinements(env)
  IN IF issues # <<>> THEN Throw([class |-> "ZodError", issues |-> issues])
     ELSE Return(env)

\* parseConfig copying every credential the environment holds
parseConfigAnyCredential(env) ==
  LET base == [baseUrl |-> env["API_BASE_URL"].v, authType |-> env["API_AUTH_TYPE"].v]
      withToken == IF Truthy(EnvVar(env, "API_AUTH_TOKEN"))
                   THEN Spread(base, [authToken |-> env["API_AUTH_TOKEN"].v]) ELSE base
  IN IF Truthy(EnvVar(env, "API_BASIC_AUTH_USERNAME"))
        /\ Truthy(EnvVar(env, "API_BASIC_AUTH_PASSWORD"))
     THEN Spread(withToken, [basicAuth |-> [username |-> env["API_BASIC_AUTH_USERNAME"].v,
                                            password |-> env["API_BASIC_AUTH_PASSWORD"].v]])
     ELSE withToken
\* parseConfig
parseConfig(env) ==
  LET authType == env["API_AUTH_TYPE"].v
      base == [baseUrl |-> env["API_BASE_URL"].v, authType |-> authType]
      withToken == IF authType = "token" /\ Truthy(EnvVar(env, "API_AUTH_TOKEN"))
                   THEN Spread(base, [authToken |-> env["API_AUTH_TOKEN"].v]) ELSE base
  IN IF authType = "basic" /\ Truthy(EnvVar(env, "API_BASIC_AUTH_USERNAME"))
        /\ Truthy(EnvVar(env, "API_BASIC_AUTH_PASSWORD"))
     THEN Spread(withToken, [basicAuth |-> [username |-> env["API_BASIC_AUTH_USERNAME"].v,
                                            password |-> env["API_BASIC_AUTH_PASSWORD"].v]])
     ELSE withToken

\* loadConfig(env)
loadConfig(env) ==
  LET validatedEnv == ConfigSchemaParse(env)
      errors == validatedEnv.error.issues
      errorMessages == Join([i \in 1..Len(errors) |->
                              Join(errors[i].path, ".") \o ": " \o errors[i].message], ", ")
  IN IF validatedEnv.kind = "throw"
     THEN Throw(Thrown("ConfigurationError",
                       "Configuration validation failed: " \o errorMessages))
     ELSE Return(parseConfig(validatedEnv.value))

\* the environments: each variable unset or a string
Environments ==
  { [API_BASE_URL |-> u, API_AUTH_TYPE |-> a, API_AUTH_TOKEN |-> t,
     API_BASIC_AUTH_USERNAME |-> n, API_BASIC_AUTH_PASSWORD |-> p] :
      u \in {Undefined, Str("https://api.example.com"), Str("not-a-url")},
      a \in {Undefined, Str("basic"), Str("token"), Str("none"), Str("oauth")},
      t \in {Undefined, Str(""), Str("tok")},
      n \in {Undefined, Str(""), Str("user")},
      p \in {Undefined, Str(""), Str("pass")} }

(* ------------------ the advertised schemas (src/tools) ------------------ *)
\* the JSON-schema type of a value of a JSON document
JsonTypeOf(x) == x.t

StringMapProperty == [type |-> "object", additionalProperties |-> [type |-> "string"]]
PathProperty == [type |-> "string", minLength |-> 1]
BodyProperty == [type |-> "object"]

\* getToolDefinition().inputSchema of the handler of `tool`
inputSchema(tool) ==
  [type |-> "object",
   properties |->
     CASE tool = "api_get" ->
            [path |-> PathProperty, queryParams |-> StringMapProperty,
             headers |-> StringMapProperty]
       [] tool = "api_delete" -> [path |-> PathProperty, headers |-> StringMapProperty]
       [] OTHER -> [path |-> PathProperty, body |-> BodyProperty,
                    headers |-> StringMapProperty],
   required |-> {"path"},
   additionalProperties |-> FALSE]

\* JSON-schema validation of one value against one property's schema
AcceptsProperty(property, x) ==
  /\ JsonTypeOf(x) = property.type
  /\ "minLength" \in DOMAIN property => Len(x.v) >= property.minLength
  /\ "additionalProperties" \in DOMAIN property =>
       \A k \in DOMAIN x.v : JsonTypeOf(x.v[k]) = property.additionalProperties.type

\* JSON-schema validation of an argument object against an inputSchema
Accepts(schema, args) ==
  /\ JsonTypeOf(args) = schema.type
  /\ schema.required \subseteq DOMAIN args.v
  /\ \A k \in DOMAIN args.v :
       IF k \in DOMAIN schema.properties THEN AcceptsProperty(schema.properties[k], args.v[k])
       ELSE schema.additionalProperties

\* the argument objects a JSON document can hold
JsonArguments ==
  { MkObject([path |-> p, headers |-> h, queryParams |-> q, body |-> b, foo |-> f]) :
      p \in {Undefined, Str(""), Str("/users"), Num(123)},
      h \in {Undefined, Null, Obj(EmptyMap), Obj([k \in {"X-Id"} |-> Str("a")]),
             Obj([k \in {"X-Id"} |-> Num(1)])},
      q \in {Undefined, Null, Obj([k \in {"q"} |-> Str("a b")])},
      b \in {Undefined, Null, Str("text"), Num(5), Obj([k \in {"name"} |-> Str("John")]),
             [t |-> "array", v |-> <<Num(1)>>]},
      f \in {Undefined, Str("bar")} }

(* ---------------------- runs of single functions ------------------------ *)
\* the data an HTTP body can carry: a JSON value, or nothing
JsonDataValues ==
  { Undefined, Null, Str(""), Str("ok"), Num(0), Num(7), Bool(FALSE), Obj(EmptyMap),
    Obj([id |-> Num(1), name |-> Str("")]),
    Obj([item |-> Obj([tags |-> Null, done |-> Bool(FALSE)])]),
    [t |-> "array", v |-> <<Num(1), Str("two")>>] }

\* the ApiResponses with success = true
SuccessResponses ==
  { [success |-> Bool(TRUE), status |-> Num(s), data |-> d, headers |-> h] :
      s \in {200, 201, 204}, d \in JsonDataValues,
      h \in {Obj(EmptyMap), Obj(ReplyHeaders)} }

\* what a handler can have been constructed with
CredentialValues == { Undefined, Null, Num(0), Num(42), Str(""), Str("  "), Str("secret") }
Handlers ==
  { [type |-> "basic", username |-> u, password |-> p] :
      u \in CredentialValues, p \in CredentialValues }
  \cup { [type |-> "token", token |-> t] : t \in CredentialValues }
  \cup { [type |-> "none"] }

\* the runs: each function with each of its inputs
FunctionRuns ==
  { [name |-> "formatSuccessResponse", input |-> r, output |-> None] : r \in SuccessResponses }
  \cup { [name |-> "validate", input |-> h, output |-> None] : h \in Handlers }
  \cup { [name |-> "loadConfig", input |-> e, output |-> None] : e \in Environments }
  \cup { [name |-> "getToolDefinition", input |-> [tool |-> t, args |-> a], output |-> None] :
            t \in Tools, a \in JsonArguments }

InitFunctions ==
  /\ CallsAtRest
  /\ heap = <<>>
  /\ authRun = NoRun
  /\ server = NoComponents
  /\ initLog = <<>>
  /\ initResult = None
  /\ slots = <<>>
  /\ clientDefaults = InstanceDefaults
  /\ provider = NoProvider
  /\ fn \in FunctionRuns

FnRest == <<callVars, heap, authRun, server, initLog, initResult, slots, clientDefaults,
            provider>>

\* formatSuccessResponse(response), and JSON.parse of the text of its content
FormatSuccess ==
  /\ fn.name = "formatSuccessResponse" /\ fn.output = None
  /\ LET toolResult == formatSuccessResponse(fn.input)
     IN fn' = [fn EXCEPT !.output =
                 Return([result |-> toolResult,
                         parsed |-> JSONparse(toolResult.content[1].text)])]
  /\ UNCHANGED FnRest

\* handler.validate()
Validate ==
  /\ fn.name = "validate" /\ fn.output = None
  /\ fn' = [fn EXCEPT !.output = validateFields(fn.input)]
  /\ UNCHANGED FnRest

\* loadConfig(env)
LoadConfig ==
  /\ fn.name = "loadConfig" /\ fn.output = None
  /\ fn' = [fn EXCEPT !.output = loadConfig(fn.input)]
  /\ UNCHANGED FnRest

\* one argument object put to the handler's inputSchema and to the schema
\* handleCall validates against
GetToolDefinition ==
  /\ fn.name = "getToolDefinition" /\ fn.output = None
  /\ fn' = [fn EXCEPT !.output =
              Return([advertised |-> Accepts(inputSchema(fn.input.tool), fn.input.args),
                      validated |-> validateArguments(SchemaOf(fn.input.tool),
                                                      fn.input.args).kind = "return"])]
  /\ UNCHANGED FnRest

NextFunctions == FormatSuccess \/ Validate \/ LoadConfig \/ GetToolDefinition
SpecFunctions == InitFunctions /\ [][NextFunctions]_vars

NonEmptyString(x) == x.t = "string" /\ Len(x.v) > 0
\* validate() threw an Error whose message contains `text`
FailsWith(text) ==
  /\ fn.output.kind = "throw"
  /\ fn.output.error.class = "Error"
  /\ Contains(fn.output.error.message, text)

\* C24: validate() of a Basic handler fails with "requires a valid username"
\* exactly when the username is not a non-empty string, and otherwise with
\* "requires a valid password" exactly when the password is not one; of a
\* Token handler it fails with "requires a valid token" exactly when the
\* token is not a non-empty string and with "requires a non-empty token"
\* exactly when it is a string of whitespace only; in every other case, and
\* always for the NoAuth handler, it returns.
C24_Validate ==
  (fn.name = "validate" /\ fn.output # None) =>
    CASE fn.input.type = "basic" ->
           IF ~NonEmptyString(fn.input.username) THEN FailsWith("requires a valid username")
           ELSE IF ~NonEmptyString(fn.input.password)
           THEN FailsWith("requires a valid password")
           ELSE fn.output = Return(Undefined)
      [] fn.input.type = "token" ->
           IF ~NonEmptyString(fn.input.token) THEN FailsWith("requires a valid token")
           ELSE IF IsBlank(fn.input.token.v) THEN FailsWith("requires a non-empty token")
           ELSE fn.output = Return(Undefined)
      [] OTHER -> fn.output = Return(Undefined)

\* a Basic handler holding a number as username and no password was
\* validated: the username is reported
C24_Witness ==
  /\ fn.name = "validate"
  /\ fn.input = [type |-> "basic", username |-> Num(42), password |-> Undefined]
  /\ FailsWith("requires a valid username")

(* ------------------------------- C26 ------------------------------------ *)
\* `name` is a member of the configuration
Has(config, name) == name \in DOMAIN config

\* C26: loadConfig either throws a ConfigurationError or returns a
\* ServerConfig in which authType "token" comes with a non-empty authToken
\* and no basicAuth, "basic" with a basicAuth of non-empty username and
\* password and no authToken, and "none" with neither, whatever credential
\* variables the environment holds.
C26_ConfigInvariant ==
  (fn.name = "loadConfig" /\ fn.output # None) =>
    IF fn.output.kind = "throw" THEN fn.output.error.class = "ConfigurationError"
    ELSE LET config == fn.output.value
         IN /\ fn.output.kind = "return"
            /\ config.authType \in AuthTypes
            /\ config.authType = "token" =>
                 /\ Has(config, "authToken") /\ config.authToken # ""
                 /\ ~Has(config, "basicAuth")
            /\ config.authType = "basic" =>
                 /\ Has(config, "basicAuth")
                 /\ config.basicAuth.username # "" /\ config.basicAuth.password # ""
                 /\ ~Has(config, "authToken")
            /\ config.authType = "none" =>
                 ~Has(config, "authToken") /\ ~Has(config, "basicAuth")

\* an environment of type "none" that holds a token and both Basic
\* credentials has been loaded
C26_Witness ==
  /\ fn.name = "loadConfig"
  /\ fn.output.kind = "return"
  /\ fn.input.API_AUTH_TYPE = Str("none")
  /\ fn.input.API_AUTH_TOKEN = Str("tok")
  /\ fn.input.API_BASIC_AUTH_USERNAME = Str("user")
  /\ fn.input.API_BASIC_AUTH_PASSWORD = Str("pass")
  /\ fn.output.value.authType = "none"

(* ------------------------------- C25 ------------------------------------ *)
\* C25: the inputSchema a handler advertises accepts an argument object
\* exactly when the schema its handleCall validates against does.
C25_SameArguments ==
  (fn.name = "getToolDefinition" /\ fn.output.kind = "return") =>
    fn.output.value.advertised = fn.output.value.validated

(* ------------------- resources (src/resources/index.ts) ----------------- *)
\* an ApiEndpointInfo: its path, methods and description
Endpoint(path, methods, description) ==
  [path |-> path, methods |-> methods, description |-> description]

\* getStandardEndpoints
getStandardEndpoints ==
  << Endpoint("/{resource}", <<"GET">>, "Retrieve a collection of resources"),
     Endpoint("/{resource}/{id}", <<"GET">>, "Retrieve a specific resource by ID"),
     Endpoint("/{resource}", <<"POST">>, "Create a new resource"),
     Endpoint("/{resource}/{id}", <<"PUT">>, "Update an entire resource by ID (replace)"),
     Endpoint("/{resource}/{id}", <<"PATCH">>, "Partially update a resource by ID (merge)"),
     Endpoint("/{resource}/{id}", <<"DELETE">>, "Delete a resource by ID") >>

commonPaths ==
  <<"/api", "/v1", "/api/v1", "/health", "/status", "/info", "/version", "/docs",
    "/swagger", "/openapi">>
commonResources ==
  <<"users", "posts", "comments", "articles", "products", "orders", "items", "data">>

\* discoverFromApiRoot: the endpoints pushed for the resources from `i` on,
\* `up` being the paths the remote API answers with a 2xx status
RECURSIVE discoverFromApiRoot(_, _, _)
discoverFromApiRoot(rootPath, i, up) ==
  IF i > Len(commonResources) THEN <<>>
  ELSE LET resource == commonResources[i]
           resourcePath == rootPath \o "/" \o resource
       IN (IF resourcePath \in up
           THEN << Endpoint(resourcePath, <<"GET", "POST">>,
                            "Discovered resource collection: " \o resource),
                   Endpoint(resourcePath \o "/{id}", <<"GET", "PUT", "PATCH", "DELETE">>,
                            "Discovered individual resource: " \o resource \o " by ID") >>
           ELSE <<>>)
          \o discoverFromApiRoot(rootPath, i + 1, up)

\* probeForCommonEndpoints: the endpoints pushed for the common paths from `i` on
RECURSIVE probeForCommonEndpoints(_, _)
probeForCommonEndpoints(i, up) ==
  IF i > Len(commonPaths) THEN <<>>
  ELSE LET path == commonPaths[i]
       IN (IF path \in up
           THEN <<Endpoint(path, <<"GET">>, "Discovered endpoint: " \o path)>>
                \o (IF Contains(path, "api") \/ Contains(path, "v1")
                    THEN discoverFromApiRoot(path, 1, up) ELSE <<>>)
           ELSE <<>>)
          \o probeForCommonEndpoints(i + 1, up)

\* discoverEndpoints / getAvailableEndpoints
discoverEndpoints(up) == getStandardEndpoints \o probeForCommonEndpoints(1, up)

EndpointUriPrefix == "api://endpoints/endpoint-"
InfoUri == "api://endpoints/info"
InfoResource ==
  [uri |-> InfoUri, name |-> "API Information",
   description |-> "General information about the configured API"]

\* the name listResources gives an endpoint
ResourceName(endpoint) == Join(endpoint.methods, ", ") \o " " \o endpoint.path

\* listResources: the information resource, then one resource per endpoint
listResources(up) ==
  LET endpoints == discoverEndpoints(up)
  IN <<InfoResource>> \o
     [index \in 1..Len(endpoints) |->
        [uri |-> EndpointUriPrefix \o ToString(index - 1),
         name |-> ResourceName(endpoints[index]),
         description |-> endpoints[index].description]]

\* the most endpoints a discovery can give
MaxEndpoints == Len(getStandardEndpoints) + Len(commonPaths) * (1 + 2 * Len(commonResources))

\* uri.match(/api:\/\/endpoints\/endpoint-(\d+)/) and parseInt of its group:
\* the index, or -1 when the URI does not match
EndpointIndex(uri) ==
  IF \E i \in 0..MaxEndpoints : uri = EndpointUriPrefix \o ToString(i)
  THEN CHOOSE i \in 0..MaxEndpoints : uri = EndpointUriPrefix \o ToString(i)
  ELSE -1

\* readResource(uri)
readResource(uri, up) ==
  IF uri = InfoUri THEN Return([uri |-> uri, info |-> TRUE])
  ELSE IF EndpointIndex(uri) < 0 THEN Throw(Thrown("Error", "Invalid resource URI: " \o uri))
  ELSE LET endpointIndex == EndpointIndex(uri)
           endpoints == discoverEndpoints(up)
       IN IF endpointIndex >= Len(endpoints)
          THEN Throw(Thrown("Error", "Endpoint not found: " \o uri))
          ELSE Return([uri |-> uri, endpoint |-> endpoints[endpointIndex + 1]])

\* the paths the remote API may answer with a 2xx status, now or later
AnsweringPaths == {"/api", "/api/users", "/health"}

ResourcesRest == <<callVars, heap, authRun, server, initLog, initResult, slots,
                   clientDefaults, fn>>

InitResources ==
  /\ CallsAtRest
  /\ heap = <<>>
  /\ authRun = NoRun
  /\ server = NoComponents
  /\ initLog = <<>>
  /\ initResult = None
  /\ slots = <<>>
  /\ clientDefaults = InstanceDefaults
  /\ fn = NoFn
  /\ \E up \in SUBSET AnsweringPaths : provider = [NoProvider EXCEPT !.up = up]

\* the remote API starts or stops answering some of the probed paths
ApiChanges(up) ==
  /\ up # provider.up
  /\ provider' = [provider EXCEPT !.up = up]
  /\ UNCHANGED ResourcesRest

\* listResources(), its discovery run against the API as it is now
ListResources ==
  /\ provider' = [provider EXCEPT !.listed = Return(listResources(provider.up)),
                                  !.at = provider.up, !.uri = "", !.readAt = {},
                                  !.read = None]
  /\ UNCHANGED ResourcesRest

\* the URIs of the last listing
ListedUris ==
  IF provider.listed.kind = "return"
  THEN {provider.listed.value[i].uri : i \in 1..Len(provider.listed.value)} ELSE {}

\* readResource(uri) of a listed URI or of a URI of another form, its
\* discovery run against the API as it is now
ReadResource(uri) ==
  /\ uri \in ListedUris \cup {"api://endpoints/other"}
  /\ provider' = [provider EXCEPT !.uri = uri, !.readAt = provider.up,
                                  !.read = readResource(uri, provider.up)]
  /\ UNCHANGED ResourcesRest

\* the URIs a client can ask for: those a listing can hold, and one of another form
RequestedUris ==
  {InfoUri, "api://endpoints/other"}
  \cup {EndpointUriPrefix \o ToString(i) : i \in 0..(MaxEndpoints - 1)}

NextResources ==
  \/ \E up \in SUBSET AnsweringPaths : ApiChanges(up)
  \/ ListResources
  \/ \E uri \in RequestedUris : ReadResource(uri)
SpecResources == InitResources /\ [][NextResources]_vars

(* ------------------------------- C30 ------------------------------------ *)
\* the resource the last listing gave under the URI that was read
ListedUnder(uri) ==
  {provider.listed.value[i] : i \in {j \in 1..Len(provider.listed.value) :
                                       provider.listed.value[j].uri = uri}}

\* C30: a readResource of a URI of the last listing returns, and the
\* endpoint it returns is the one the listing named under that URI, also
\* when the remote API's answers changed after the listing.
C30_ListedCanBeRead ==
  (provider.read # None /\ provider.uri \in ListedUris /\ provider.uri # InfoUri) =>
     /\ provider.read.kind = "return"
     /\ \E r \in ListedUnder(provider.uri) :
          /\ r.name = ResourceName(provider.read.value.endpoint)
          /\ r.description = provider.read.value.endpoint.description

\* with the same answers at the listing and at the read, a listed URI reads
\* as the endpoint it was listed for
StableListingCanBeRead ==
  (/\ provider.read # None
   /\ provider.uri \in ListedUris /\ provider.uri # InfoUri
   /\ provider.at = provider.readAt) =>
     /\ provider.read.kind = "return"
     /\ \E r \in ListedUnder(provider.uri) :
          /\ r.name = ResourceName(provider.read.value.endpoint)
          /\ r.description = provider.read.value.endpoint.description

====
